---- MODULE Spec2Model ----
(***************************************************************************)
(* sortpics-go: the file-organization pipeline.                            *)
(*                                                                         *)
(*   internal/duplicate  Detector: CalculateSHA256, ResolveCollision,      *)
(*                       CheckAndResolve, addIncrement                     *)
(*   internal/rename     ImageRename.ParseMetadata / Perform /             *)
(*                       writeMetadata, SafeCopy, SafeMove                 *)
(*   cmd/sortpics/cmd    processFiles (coordinator, monitor goroutine,     *)
(*                       worker pool tasks), processFile, Stats            *)
(*                                                                         *)
(* The filesystem is modelled by what the code can observe of it: which    *)
(* paths exist, the bytes and the permission bits of each file.  File      *)
(* bytes are abstract: a file value carries the identity of the bytes      *)
(* (id), whether they are complete (full), whether the tag writer has      *)
(* rewritten them (tagged) and the permission bits (mode).                 *)
(***************************************************************************)
EXTENDS Integers, Sequences, FiniteSets, TLC

\* ------------------------------------------------------------- bounds
\* Number of discovered source files of a run.
NumFiles == 2
\* Size of the worker pool is drawn from 1..MaxWorkers.
MaxWorkers == 2
\* The probe limit of ResolveCollision.  The code's limit is 1000
\* (increment > 1000); the model scales it down, the loop is the same.
CollisionLimit == 2

Files == 1..NumFiles

\* Two destination keys.  The initial candidate path of a file is decided by
\* its metadata (GeneratePath with increment 0); two files collide when they
\* have the same key.  Extract always yields a timestamp (its last fallback
\* is the file's modification time), so every key of a run is a dated one.
Keys == {"a", "b"}

Modes == {"0600", "0644"}

\* ---------------------------------------------------------- file values
NoFile == [id |-> 0, full |-> TRUE, tagged |-> FALSE, mode |-> "none"]

Exists(v) == v.id # 0

Plain(i, m) == [id |-> i, full |-> TRUE, tagged |-> FALSE, mode |-> m]

\* The bytes of a file, as far as a hash can tell them apart.
Bytes(v) == <<v.id, v.full, v.tagged>>

\* A destination path: the initial candidate of a key followed by the
\* "_N" suffixes inserted before the extension, in order.
Increments == 1..CollisionLimit

Suffixes == {<<>>} \cup {<<n>> : n \in Increments}
              \cup {<<n, m>> : n \in Increments, m \in Increments}

Paths == {[k |-> k, s |-> s] : k \in Keys, s \in Suffixes}

Candidate(k) == [k |-> k, s |-> <<>>]

\* addIncrement: "<dir>/<stem>_<N><ext>"; applied to a path that already
\* carries a suffix it appends a second one.
addIncrement(path, increment) == [path EXCEPT !.s = Append(@, increment)]

\* ------------------------------------------------------------ variables
VARIABLES
    run,        \* the run's inputs: cfg (Move, DryRun), workers, key, content
    src,        \* src[f]: the source file f (NoFile once moved away)
    srcOrig,    \* srcOrig[f]: the sidecar "<source>_original" of f
    dst,        \* dst[p]: the file at destination path p
    dstOrig,    \* dstOrig[p]: the sidecar "<p>_original"
    tmp,        \* tmp[f]: the ".tmp-*" file of the SafeCopy call working on f
    dirs,       \* dirs[k]: the destination directory of key k exists
    task,       \* task[f]: the pool task of file f (position and locals)
    stats,      \* Stats: Processed, Duplicates, Skipped, Errors
    queue,      \* the pool's task queue
    coord,      \* processFiles' submit loop: position, next file, result
    cancelled,  \* ctx.Done() is closed
    stopped,    \* the pool has been stopped (StopAndWait was called)
    mon,        \* the monitor goroutine of processFiles
    gen,        \* a call of the PathGenerator: receiver, arguments, result
    scan,       \* a call of collectFiles: the tree, the arguments, the result
    cli,        \* an invocation of run: flags, arguments, how far it came
    vfy         \* a verify --fix over one directory: files, workers, counters

fsVars == <<src, srcOrig, dst, dstOrig, tmp, dirs>>

schedVars == <<queue, coord, cancelled, stopped, mon>>

callVars == <<scan, cli, vfy>>

vars == <<run, src, srcOrig, dst, dstOrig, tmp, dirs, task, stats, queue,
          coord, cancelled, stopped, mon, gen, scan, cli, vfy>>

\* A hash function that never looks for the "_original" sidecar.
CalculateSHA256_NoSidecar(file, side) ==
    IF Exists(file) THEN [ok |-> TRUE, h |-> Bytes(file)]
    ELSE [ok |-> FALSE, h |-> Bytes(NoFile)]

\* A hash function that takes the sidecar only when the file is missing.
CalculateSHA256_FileFirst(file, side) ==
    IF Exists(file) THEN [ok |-> TRUE, h |-> Bytes(file)]
    ELSE IF Exists(side) THEN [ok |-> TRUE, h |-> Bytes(side)]
    ELSE [ok |-> FALSE, h |-> Bytes(NoFile)]

\* ------------------------------------------------- duplicate.Detector
\* CalculateSHA256 of a path whose file is `file` and whose "_original"
\* sidecar is `side`: the sidecar's bytes are hashed when it exists.  SHA-256
\* is taken to be injective on the bytes.
CalculateSHA256(file, side) ==
    IF Exists(side) THEN [ok |-> TRUE, h |-> Bytes(side)]
    ELSE IF Exists(file) THEN [ok |-> TRUE, h |-> Bytes(file)]
    ELSE [ok |-> FALSE, h |-> Bytes(NoFile)]

\* A probe loop that returns the first suffixed path without looking at it.
ProbeFrom_FirstSlot(sourceHash, D, DO, initialPath, increment) ==
    [path |-> addIncrement(initialPath, 1), hashed |-> TRUE, err |-> FALSE]

\* IsDuplicate(source, destination): false for a destination that does not
\* exist, else the two hashes are compared.
IsDuplicate(sf, ss, D, DO, destination) ==
    IF ~Exists(D[destination])
    THEN [dup |-> FALSE, err |-> FALSE]
    ELSE LET sourceHash == CalculateSHA256(sf, ss) IN
         IF ~sourceHash.ok
         THEN [dup |-> FALSE, err |-> TRUE]
         ELSE [dup |-> sourceHash.h
                         = CalculateSHA256(D[destination], DO[destination]).h,
               err |-> FALSE]

\* A probe loop that gives up one slot early.
RECURSIVE ProbeFrom_OffByOne(_, _, _, _, _)
ProbeFrom_OffByOne(sourceHash, D, DO, initialPath, increment) ==
    IF increment >= CollisionLimit
    THEN [path |-> initialPath, hashed |-> FALSE, err |-> TRUE]
    ELSE LET currentPath == addIncrement(initialPath, increment) IN
         IF ~Exists(D[currentPath])
         THEN [path |-> currentPath, hashed |-> TRUE, err |-> FALSE]
         ELSE IF sourceHash = CalculateSHA256(D[currentPath], DO[currentPath]).h
              THEN [path |-> currentPath, hashed |-> TRUE, err |-> FALSE]
              ELSE ProbeFrom_OffByOne(sourceHash, D, DO, initialPath, increment + 1)

\* A probe loop that only looks for a free slot and compares no hash.
RECURSIVE ProbeFrom_FreeOnly(_, _, _, _, _)
ProbeFrom_FreeOnly(sourceHash, D, DO, initialPath, increment) ==
    IF increment > CollisionLimit
    THEN [path |-> initialPath, hashed |-> FALSE, err |-> TRUE]
    ELSE LET currentPath == addIncrement(initialPath, increment) IN
         IF ~Exists(D[currentPath])
         THEN [path |-> currentPath, hashed |-> TRUE, err |-> FALSE]
         ELSE ProbeFrom_FreeOnly(sourceHash, D, DO, initialPath, increment + 1)

\* The probe loop of ResolveCollision, from `increment` on.
RECURSIVE ProbeFrom(_, _, _, _, _)
ProbeFrom(sourceHash, D, DO, initialPath, increment) ==
    IF increment > CollisionLimit
    THEN [path |-> initialPath, hashed |-> FALSE, err |-> TRUE]
    ELSE LET currentPath == addIncrement(initialPath, increment) IN
         IF ~Exists(D[currentPath])
         THEN [path |-> currentPath, hashed |-> TRUE, err |-> FALSE]
         ELSE IF sourceHash = CalculateSHA256(D[currentPath], DO[currentPath]).h
              THEN [path |-> currentPath, hashed |-> TRUE, err |-> FALSE]
              ELSE ProbeFrom(sourceHash, D, DO, initialPath, increment + 1)

\* A resolver that hashes the source before it looks at the initial path.
ResolveCollision_HashFirst(sf, ss, D, DO, initialPath) ==
    LET sourceHash == CalculateSHA256(sf, ss) IN
    IF ~sourceHash.ok
    THEN [path |-> initialPath, hashed |-> FALSE, err |-> TRUE]
    ELSE IF ~Exists(D[initialPath])
         THEN [path |-> initialPath, hashed |-> TRUE, err |-> FALSE]
         ELSE IF sourceHash.h = CalculateSHA256(D[initialPath], DO[initialPath]).h
              THEN [path |-> initialPath, hashed |-> TRUE, err |-> FALSE]
              ELSE ProbeFrom(sourceHash.h, D, DO, initialPath, 1)

\* ResolveCollision(source, initialPath) on the destination tree D with
\* sidecars DO; sf and ss are the source file and its sidecar.  `hashed`
\* says that the returned source hash is not nil.
ResolveCollision(sf, ss, D, DO, initialPath) ==
    IF ~Exists(D[initialPath])
    THEN [path |-> initialPath, hashed |-> FALSE, err |-> FALSE]
    ELSE LET sourceHash == CalculateSHA256(sf, ss) IN
         IF ~sourceHash.ok
         THEN [path |-> initialPath, hashed |-> FALSE, err |-> TRUE]
         ELSE IF sourceHash.h = CalculateSHA256(D[initialPath], DO[initialPath]).h
              THEN [path |-> initialPath, hashed |-> TRUE, err |-> FALSE]
              ELSE ProbeFrom(sourceHash.h, D, DO, initialPath, 1)

\* A verification that never reports a duplicate.
VerifyDuplicate_Never(sf, ss, D, DO, finalPath, hashed) == FALSE

\* The second half of CheckAndResolve: with a non-nil source hash, stat the
\* final path and compare its hash with the source's.
VerifyDuplicate(sf, ss, D, DO, finalPath, hashed) ==
    /\ hashed
    /\ Exists(D[finalPath])
    /\ CalculateSHA256(D[finalPath], DO[finalPath]).h = CalculateSHA256(sf, ss).h

\* CheckAndResolve(source, initialDestination) on an unchanging tree.
CheckAndResolve(sf, ss, D, DO, initialDestination) ==
    LET r == ResolveCollision(sf, ss, D, DO, initialDestination) IN
    IF r.err
    THEN [path |-> initialDestination, dup |-> FALSE, err |-> TRUE]
    ELSE [path |-> r.path,
          dup |-> VerifyDuplicate(sf, ss, D, DO, r.path, r.hashed),
          err |-> FALSE]

\* --------------------------------------------------------------- tasks
\* A pool task: pc is its position; dest is ir.destination, final the
\* finalDestination local of the resolver call in progress, hashed its
\* non-nil source hash; inMove says SafeCopy runs as SafeMove's fallback;
\* dup is ir.isDuplicate; wrote says that a copy or move to dest has
\* completed; res names the counter the task incremented ("canceled": it
\* returned at its cancellation check); err is the error of a direct call and
\* mvErr the errno ("EXDEV") of the os.Rename that made SafeMove fall back;
\* metaErr says where writeMetadata failed ("init": NewExiftool or
\* ExtractMetadata, "write": et.WriteMetadata).
NewTask(pc0, k) ==
    [pc |-> pc0, dest |-> Candidate(k), final |-> Candidate(k),
     hashed |-> FALSE, dup |-> FALSE, inMove |-> FALSE, wrote |-> FALSE,
     res |-> "none", err |-> "", mvErr |-> "", metaErr |-> ""]

Running(f) == task[f].pc \notin {"idle", "queued", "done"}

\* The process is alive: Submit on a stopped pool panics.
Alive == coord.pc # "panic"

AddStat(counter) == [stats EXCEPT ![counter] = @ + 1]

\* A task body that counts a failed file as processed as well.
Finish_CountTwice(f, r) ==
    /\ task' = [task EXCEPT ![f].pc = "done", ![f].res = r,
                            ![f].final = task[f].dest, ![f].hashed = FALSE,
                            ![f].inMove = FALSE, ![f].err = "",
                            ![f].mvErr = ""]
    /\ stats' = IF r = "processed" THEN AddStat("Processed")
                ELSE IF r = "duplicate" THEN AddStat("Duplicates")
                ELSE IF r = "skipped" THEN AddStat("Skipped")
                ELSE IF r = "error"
                     THEN [stats EXCEPT !.Errors = @ + 1, !.Processed = @ + 1]
                ELSE stats

\* processFile returns: the task body counts the outcome and ends.
Finish(f, r) ==
    /\ task' = [task EXCEPT ![f].pc = "done", ![f].res = r,
                            ![f].final = task[f].dest, ![f].hashed = FALSE,
                            ![f].inMove = FALSE, ![f].err = "",
                            ![f].mvErr = ""]
    /\ stats' = IF r = "processed" THEN AddStat("Processed")
                ELSE IF r = "duplicate" THEN AddStat("Duplicates")
                ELSE IF r = "skipped" THEN AddStat("Skipped")
                ELSE IF r = "error" THEN AddStat("Errors")
                ELSE stats

\* Contents are named in order of first use: file 1 has content 1, file f a
\* content used before it or the next new one.
RECURSIVE MaxContent(_, _)
MaxContent(c, f) == IF f = 0 THEN 0
                    ELSE IF c[f] > MaxContent(c, f - 1) THEN c[f]
                    ELSE MaxContent(c, f - 1)

ContentMaps ==
    {c \in [Files -> Files] : \A f \in Files : c[f] <= MaxContent(c, f - 1) + 1}

KeyMaps == {k \in [Files -> Keys] : k[1] = "a"}

\* A file of the archive that no source of the run equals: the occupant of
\* slot n from an earlier run.
Foreign(n) == Plain(NumFiles + 1 + n, "0644")

\* The first `pre` slots of key "a" (the candidate, _1, _2, ...) are taken:
\* a run starts on an empty archive, on one whose candidate is taken, or on
\* one where the candidate and every suffixed slot are taken.
PreSlot(p) == IF p.s = <<>> THEN 0 ELSE IF Len(p.s) = 1 THEN p.s[1] ELSE -1

PreArchive(pre) ==
    [p \in Paths |->
        IF p.k = "a" /\ PreSlot(p) >= 0 /\ PreSlot(p) < pre
        THEN Foreign(PreSlot(p)) ELSE NoFile]

\* No call of that kind is being looked at.
NoCall == [pc |-> "none"]

InitSched(pc0) ==
    /\ queue = <<>>
    /\ coord = [pc |-> pc0, i |-> 1, err |-> FALSE, summary |-> FALSE,
               cleanup |-> FALSE]
    /\ cancelled = FALSE
    /\ stopped = FALSE
    /\ mon = "idle"
    /\ stats = [Processed |-> 0, Duplicates |-> 0, Skipped |-> 0, Errors |-> 0]

\* A run of processFiles over NumFiles discovered files.
InitRun ==
    /\ run \in [Move : BOOLEAN, DryRun : BOOLEAN, workers : 1..MaxWorkers,
                key : KeyMaps, content : ContentMaps, direct : {FALSE},
                n : {1}]
    /\ src = [f \in Files |-> Plain(run.content[f], "0644")]
    /\ srcOrig = [f \in Files |-> NoFile]
    /\ \E pre \in {0, 1, CollisionLimit + 1} :
          /\ dst = PreArchive(pre)
          /\ dirs = [k \in Keys |-> k = "a" /\ pre > 0]
    /\ dstOrig = [p \in Paths |-> NoFile]
    /\ tmp = [f \in Files |-> NoFile]
    /\ task = [f \in Files |-> NewTask("idle", run.key[f])]
    /\ InitSched("check")
    /\ gen = NoCall /\ scan = NoCall /\ cli = NoCall /\ vfy = NoCall

\* A direct call, as the unit tests make it: SafeCopy(source 1, candidate
\* of key "a"), or SafeMove with run.Move, on a tree whose directories may
\* or may not exist.  The other files take no part.
InitDirect ==
    /\ run \in [Move : BOOLEAN, DryRun : {FALSE}, workers : {1},
                key : {[f \in Files |-> "a"]},
                content : {[f \in Files |-> 1]}, direct : {TRUE}, n : {1}]
    /\ \E m \in Modes : src = [f \in Files |-> Plain(run.content[f], m)]
    /\ srcOrig = [f \in Files |-> NoFile]
    /\ \E pre \in {0, 1} :
          /\ dst = PreArchive(pre)
          /\ dirs \in {d \in [Keys -> BOOLEAN] : pre > 0 => d["a"]}
    /\ dstOrig = [p \in Paths |-> NoFile]
    /\ tmp = [f \in Files |-> NoFile]
    /\ task = [f \in Files |->
                 NewTask(IF f # 1 THEN "idle"
                         ELSE IF run.Move THEN "mv_rename" ELSE "sc_create",
                         run.key[f])]
    /\ InitSched("direct")
    /\ gen = NoCall /\ scan = NoCall /\ cli = NoCall /\ vfy = NoCall

Init == InitRun \/ InitDirect

\* ------------------------------------------------ the task of one file
\* The pool hands the head of the queue to a free worker.  The task body
\* checks ctx.Done(), then processFile: NewImageRename and the metadata
\* extraction of ParseMetadata, which read only the task's own source.
TaskStart(f) ==
    /\ Alive
    /\ queue # <<>> /\ Head(queue) = f
    /\ Cardinality({g \in Files : Running(g)}) < run.workers
    /\ queue' = Tail(queue)
    /\ \/ /\ cancelled
          /\ Finish(f, "canceled")
       \/ /\ ~cancelled
          /\ task' = [task EXCEPT ![f].pc = "resolve"]
          /\ UNCHANGED stats
       \/ /\ ~cancelled         \* NewImageRename or Extract fails
          /\ Finish(f, "error")
    /\ UNCHANGED <<callVars, run, gen, fsVars, coord, cancelled, stopped, mon>>

\* ResolveCollision, called by CheckAndResolve from ParseMetadata (at
\* "resolve") and from Perform's recheck (at "re_resolve").
ResolveStep(f, at, next) ==
    /\ Alive
    /\ task[f].pc = at
    /\ LET r == ResolveCollision(src[f], srcOrig[f], dst, dstOrig, task[f].dest) IN
       \/ /\ ~r.err
          /\ task' = [task EXCEPT ![f].pc = next, ![f].final = r.path,
                                  ![f].hashed = r.hashed]
          /\ UNCHANGED stats
       \/ /\ r.err \/ Exists(dst[task[f].dest])  \* too many collisions; a hash fails
          /\ Finish(f, "error")
    /\ UNCHANGED <<callVars, run, gen, fsVars, schedVars>>

Resolve(f) == ResolveStep(f, "resolve", "verify")

\* A Perform without the dry-run return.
Verify_NoDryRun(f) ==
    /\ Alive
    /\ task[f].pc = "verify"
    /\ LET t == task[f]
           dup == VerifyDuplicate(src[f], srcOrig[f], dst, dstOrig, t.final, t.hashed)
       IN
       \/ /\ dup
          /\ task' = [task EXCEPT ![f].pc = "done", ![f].res = "duplicate",
                                  ![f].dest = t.final, ![f].hashed = FALSE,
                                  ![f].dup = TRUE]
          /\ stats' = AddStat("Duplicates")
       \/ /\ ~dup
          /\ task' = [task EXCEPT ![f].pc = "mkdir", ![f].dest = t.final,
                                  ![f].hashed = FALSE]
          /\ UNCHANGED stats
    /\ UNCHANGED <<callVars, run, gen, fsVars, schedVars>>

\* A Perform that is also run for a file the detector found a duplicate.
Verify_PerformDuplicate(f) ==
    /\ Alive
    /\ task[f].pc = "verify"
    /\ LET t == task[f]
           dup == VerifyDuplicate(src[f], srcOrig[f], dst, dstOrig, t.final, t.hashed)
       IN
       \/ /\ run.DryRun
          /\ task' = [task EXCEPT ![f].pc = "done", ![f].res = "processed",
                                  ![f].dest = t.final, ![f].hashed = FALSE,
                                  ![f].dup = dup]
          /\ stats' = AddStat("Processed")
       \/ /\ ~run.DryRun
          /\ task' = [task EXCEPT ![f].pc = "mkdir", ![f].dest = t.final,
                                  ![f].hashed = FALSE, ![f].dup = dup]
          /\ UNCHANGED stats
       \/ /\ t.hashed /\ Exists(dst[t.final])
          /\ Finish(f, "error")
    /\ UNCHANGED <<callVars, run, gen, fsVars, schedVars>>

\* The rest of CheckAndResolve and of ParseMetadata, then processFile up to
\* Perform's dry-run return.
Verify(f) ==
    /\ Alive
    /\ task[f].pc = "verify"
    /\ LET t == task[f]
           dup == VerifyDuplicate(src[f], srcOrig[f], dst, dstOrig, t.final, t.hashed)
       IN
       \/ /\ dup
          /\ task' = [task EXCEPT ![f].pc = "done", ![f].res = "duplicate",
                                  ![f].dest = t.final, ![f].hashed = FALSE,
                                  ![f].dup = TRUE]
          /\ stats' = AddStat("Duplicates")
       \/ /\ ~dup /\ run.DryRun
          /\ task' = [task EXCEPT ![f].pc = "done", ![f].res = "processed",
                                  ![f].dest = t.final, ![f].hashed = FALSE]
          /\ stats' = AddStat("Processed")
       \/ /\ ~dup /\ ~run.DryRun
          /\ task' = [task EXCEPT ![f].pc = "mkdir", ![f].dest = t.final,
                                  ![f].hashed = FALSE]
          /\ UNCHANGED stats
       \/ /\ t.hashed /\ Exists(dst[t.final])    \* "failed to verify duplicate"
          /\ Finish(f, "error")
    /\ UNCHANGED <<callVars, run, gen, fsVars, schedVars>>

\* A Perform that goes on to the recheck without making the directory.
Mkdir_Skip(f) ==
    /\ Alive
    /\ task[f].pc = "mkdir"
    /\ task' = [task EXCEPT ![f].pc = "recheck"]
    /\ UNCHANGED <<callVars, run, gen, fsVars, stats, schedVars>>

\* Perform: os.MkdirAll(ir.destinationDir).
Mkdir(f) ==
    /\ Alive
    /\ task[f].pc = "mkdir"
    /\ \/ /\ dirs' = [dirs EXCEPT ![task[f].dest.k] = TRUE]
          /\ task' = [task EXCEPT ![f].pc = "recheck"]
          /\ UNCHANGED stats
       \/ /\ Finish(f, "error")
          /\ UNCHANGED dirs
    /\ UNCHANGED <<callVars, run, gen, src, srcOrig, dst, dstOrig, tmp, schedVars>>

TransferPc == IF run.Move THEN "mv_rename" ELSE "sc_create"

\* Perform: os.Stat(ir.destination) of the recheck.
Recheck(f) ==
    /\ Alive
    /\ task[f].pc = "recheck"
    /\ task' = [task EXCEPT ![f].pc = IF Exists(dst[task[f].dest])
                                      THEN "re_resolve" ELSE TransferPc]
    /\ UNCHANGED <<callVars, run, gen, fsVars, stats, schedVars>>

ReResolve(f) == ResolveStep(f, "re_resolve", "re_verify")

\* The rest of the recheck: a duplicate makes Perform return nil, which
\* processFile counts as processed; otherwise ir.destination is replaced and
\* its directory made.
ReVerify(f) ==
    /\ Alive
    /\ task[f].pc = "re_verify"
    /\ LET t == task[f]
           dup == VerifyDuplicate(src[f], srcOrig[f], dst, dstOrig, t.final, t.hashed)
       IN
       \/ /\ dup
          /\ Finish(f, "processed")
       \/ /\ ~dup
          /\ task' = [task EXCEPT ![f].pc = TransferPc, ![f].dest = t.final,
                                  ![f].hashed = FALSE]
          /\ UNCHANGED stats
       \/ /\ ~dup \/ (t.hashed /\ Exists(dst[t.final]))  \* MkdirAll or a hash fails
          /\ Finish(f, "error")
    /\ UNCHANGED <<callVars, run, gen, fsVars, schedVars>>

\* ------------------------------------------------- SafeCopy / SafeMove
\* SafeCopy or SafeMove returns an error to its caller: Perform wraps it and
\* processFile's caller counts it; a direct call keeps it.
TransferFailed(f, e) ==
    IF run.direct
    THEN /\ task' = [task EXCEPT ![f].pc = "returned", ![f].err = e,
                                 ![f].inMove = FALSE]
         /\ UNCHANGED stats
    ELSE Finish(f, "error")

\* SafeCopy or SafeMove returns nil: Perform goes on to writeMetadata.
TransferDone(f) ==
    /\ task' = [task EXCEPT ![f].pc = IF run.direct THEN "returned" ELSE "meta",
                            ![f].wrote = TRUE, ![f].inMove = FALSE,
                            ![f].mvErr = IF run.direct THEN @ ELSE ""]
    /\ UNCHANGED stats

\* A SafeMove that falls back to SafeCopy after any failed rename.
MvRename_AlwaysFallback(f) ==
    /\ Alive
    /\ task[f].pc = "mv_rename"
    /\ LET d == task[f].dest IN
       \/ /\ Exists(src[f]) /\ dirs[d.k]
          /\ dst' = [dst EXCEPT ![d] = src[f]]
          /\ src' = [src EXCEPT ![f] = NoFile]
          /\ TransferDone(f)
       \/ /\ \E e \in {"EXDEV", "other"} :
                task' = [task EXCEPT ![f].pc = "sc_create", ![f].inMove = TRUE,
                                     ![f].mvErr = e]
          /\ UNCHANGED <<src, dst, stats>>
    /\ UNCHANGED <<callVars, run, gen, srcOrig, dstOrig, tmp, dirs, schedVars>>

\* A SafeMove whose fallback removes the source before it copies.
MvRename_RemoveFirst(f) ==
    /\ Alive
    /\ task[f].pc = "mv_rename"
    /\ LET d == task[f].dest IN
       \/ /\ Exists(src[f]) /\ dirs[d.k]
          /\ dst' = [dst EXCEPT ![d] = src[f]]
          /\ src' = [src EXCEPT ![f] = NoFile]
          /\ TransferDone(f)
       \/ /\ Exists(src[f]) /\ dirs[d.k]
          /\ src' = [src EXCEPT ![f] = NoFile]
          /\ task' = [task EXCEPT ![f].pc = "sc_create", ![f].inMove = TRUE,
                                  ![f].mvErr = "EXDEV"]
          /\ UNCHANGED <<dst, stats>>
       \/ /\ TransferFailed(f, "move")
          /\ UNCHANGED <<src, dst>>
    /\ UNCHANGED <<callVars, run, gen, srcOrig, dstOrig, tmp, dirs, schedVars>>

\* SafeMove: os.Rename(src, dst).  A rename replaces whatever is at dst.
\* It fails when the source or the destination directory is missing, with
\* EXDEV across filesystems, or for another reason.
MvRename(f) ==
    /\ Alive
    /\ task[f].pc = "mv_rename"
    /\ LET d == task[f].dest IN
       \/ /\ Exists(src[f]) /\ dirs[d.k]
          /\ dst' = [dst EXCEPT ![d] = src[f]]
          /\ src' = [src EXCEPT ![f] = NoFile]
          /\ TransferDone(f)
       \/ /\ Exists(src[f]) /\ dirs[d.k]    \* EXDEV: fall back to SafeCopy
          /\ task' = [task EXCEPT ![f].pc = "sc_create", ![f].inMove = TRUE,
                                  ![f].mvErr = "EXDEV"]
          /\ UNCHANGED <<src, dst, stats>>
       \/ /\ TransferFailed(f, "move")
          /\ UNCHANGED <<src, dst>>
    /\ UNCHANGED <<callVars, run, gen, srcOrig, dstOrig, tmp, dirs, schedVars>>

\* A copy that opens the destination path itself and writes into it.
ScCreate_InPlace(f) ==
    /\ Alive
    /\ task[f].pc = "sc_create"
    /\ Exists(src[f]) /\ dirs[task[f].dest.k]
    /\ dst' = [dst EXCEPT ![task[f].dest] =
                  [src[f] EXCEPT !.full = FALSE, !.mode = "0600"]]
    /\ tmp' = [tmp EXCEPT ![f] = [src[f] EXCEPT !.full = FALSE, !.mode = "0600"]]
    /\ task' = [task EXCEPT ![f].pc = "sc_write"]
    /\ UNCHANGED <<callVars, run, gen, src, srcOrig, dstOrig, dirs, stats, schedVars>>

\* SafeCopy: os.ReadFile(src), then os.CreateTemp(destDir, ".tmp-*"), which
\* makes an empty file of mode 0600 under a name no other file has.  Neither
\* failure leaves a file behind.
ScCreate(f) ==
    /\ Alive
    /\ task[f].pc = "sc_create"
    /\ \/ /\ Exists(src[f]) /\ dirs[task[f].dest.k]
          /\ tmp' = [tmp EXCEPT ![f] = [src[f] EXCEPT !.full = FALSE, !.mode = "0600"]]
          /\ task' = [task EXCEPT ![f].pc = "sc_write"]
          /\ UNCHANGED stats
       \/ /\ TransferFailed(f, "read")
          /\ UNCHANGED tmp
       \/ /\ Exists(src[f])
          /\ TransferFailed(f, "create")
          /\ UNCHANGED tmp
    /\ UNCHANGED <<callVars, run, gen, src, srcOrig, dst, dstOrig, dirs, schedVars>>

\* A step of SafeCopy after the deferred cleanup is registered fails: err is
\* set and the function returns through the cleanup.
ScError(f, e) ==
    /\ task' = [task EXCEPT ![f].pc = "sc_fail", ![f].err = e]
    /\ UNCHANGED stats

\* tmpFile.Write(data) and tmpFile.Close().  A failed write leaves a part of
\* the data in the temp file.
ScWrite(f) ==
    /\ Alive
    /\ task[f].pc = "sc_write"
    /\ \/ /\ tmp' = [tmp EXCEPT ![f].full = TRUE]
          /\ task' = [task EXCEPT ![f].pc = "sc_chmod"]
          /\ UNCHANGED stats
       \/ /\ ScError(f, "write")
          /\ UNCHANGED tmp
       \/ /\ tmp' = [tmp EXCEPT ![f].full = TRUE]
          /\ ScError(f, "close")
    /\ UNCHANGED <<callVars, run, gen, src, srcOrig, dst, dstOrig, dirs, schedVars>>

\* A copy that leaves the temp file with the mode CreateTemp gave it.
ScChmod_Skip(f) ==
    /\ Alive
    /\ task[f].pc = "sc_chmod"
    /\ task' = [task EXCEPT ![f].pc = "sc_rename"]
    /\ UNCHANGED <<callVars, run, gen, fsVars, stats, schedVars>>

\* os.Stat(src) and os.Chmod(tmpPath, srcInfo.Mode()).
ScChmod(f) ==
    /\ Alive
    /\ task[f].pc = "sc_chmod"
    /\ \/ /\ Exists(src[f])
          /\ tmp' = [tmp EXCEPT ![f].mode = src[f].mode]
          /\ task' = [task EXCEPT ![f].pc = "sc_rename"]
          /\ UNCHANGED stats
       \/ /\ ScError(f, "stat")
          /\ UNCHANGED tmp
       \/ /\ Exists(src[f])
          /\ ScError(f, "chmod")
          /\ UNCHANGED tmp
    /\ UNCHANGED <<callVars, run, gen, src, srcOrig, dst, dstOrig, dirs, schedVars>>

\* os.Rename(tmpPath, dst): the publish step.
ScRename(f) ==
    /\ Alive
    /\ task[f].pc = "sc_rename"
    /\ \/ /\ dst' = [dst EXCEPT ![task[f].dest] = tmp[f]]
          /\ tmp' = [tmp EXCEPT ![f] = NoFile]
          /\ IF task[f].inMove
             THEN task' = [task EXCEPT ![f].pc = "mv_remove"] /\ UNCHANGED stats
             ELSE TransferDone(f)
       \/ /\ ScError(f, "rename")
          /\ UNCHANGED <<dst, tmp>>
    /\ UNCHANGED <<callVars, run, gen, src, srcOrig, dstOrig, dirs, schedVars>>

\* A SafeCopy without the deferred cleanup.
ScFail_KeepTemp(f) ==
    /\ Alive
    /\ task[f].pc = "sc_fail"
    /\ TransferFailed(f, task[f].err)
    /\ UNCHANGED <<callVars, run, gen, fsVars, schedVars>>

\* The deferred cleanup of SafeCopy, run with err set: os.Remove(tmpPath),
\* then the error reaches the caller (SafeMove passes it on).
ScFail(f) ==
    /\ Alive
    /\ task[f].pc = "sc_fail"
    /\ tmp' = [tmp EXCEPT ![f] = NoFile]
    /\ TransferFailed(f, task[f].err)
    /\ UNCHANGED <<callVars, run, gen, src, srcOrig, dst, dstOrig, dirs, schedVars>>

\* A SafeMove whose fallback returns nil without removing the source.
MvRemove_KeepSource(f) ==
    /\ Alive
    /\ task[f].pc = "mv_remove"
    /\ TransferDone(f)
    /\ UNCHANGED <<callVars, run, gen, fsVars, schedVars>>

\* SafeMove after the fallback copy: os.Remove(src).
MvRemove(f) ==
    /\ Alive
    /\ task[f].pc = "mv_remove"
    /\ \/ /\ src' = [src EXCEPT ![f] = NoFile]
          /\ TransferDone(f)
       \/ /\ TransferFailed(f, "remove")
          /\ UNCHANGED src
    /\ UNCHANGED <<callVars, run, gen, srcOrig, dst, dstOrig, tmp, dirs, schedVars>>

\* --------------------------------------------------------- writeMetadata
Tagged(v) == [v EXCEPT !.tagged = TRUE]

\* writeMetadata fails at e, and processFile returns with outcome r.
MetaFailed(f, r, e) ==
    /\ task' = [task EXCEPT ![f].pc = "done", ![f].res = r, ![f].metaErr = e]
    /\ stats' = AddStat(IF r = "error" THEN "Errors" ELSE "Processed")

\* exiftool rewrites the file at ir.destination with the tags set, keeping
\* the previous file as "<dest>_original" (unless one is there already) when
\* it runs with backups.  ir.datetime is never nil after ParseMetadata.
\* The result of et.WriteMetadata is not looked at: a failed write leaves
\* the file as it was and writeMetadata returns nil.
Meta(f) ==
    /\ Alive
    /\ task[f].pc = "meta"
    /\ LET d == task[f].dest IN
       \/ /\ dst' = [dst EXCEPT ![d] = Tagged(dst[d])]
          /\ UNCHANGED dstOrig
          /\ Finish(f, "processed")
       \/ /\ dst' = [dst EXCEPT ![d] = Tagged(dst[d])]
          /\ dstOrig' = [dstOrig EXCEPT ![d] = IF Exists(@) THEN @ ELSE dst[d]]
          /\ Finish(f, "processed")
       \/ /\ UNCHANGED <<dst, dstOrig>>   \* et.WriteMetadata fails
          /\ MetaFailed(f, "processed", "write")
       \/ /\ UNCHANGED <<dst, dstOrig>>   \* NewExiftool or ExtractMetadata fails
          /\ MetaFailed(f, "error", "init")
    /\ UNCHANGED <<callVars, run, gen, src, srcOrig, tmp, dirs, schedVars>>

\* --------------------------------------------------------- processFiles
\* pool.StopAndWait() returns when no task is queued or running.
PoolIdle == \A f \in Files : task[f].pc \in {"idle", "done"}

\* The select at the head of the submit loop.  With ctx done the loop calls
\* pool.StopAndWait() and returns the cancellation error.
CoordCheck ==
    /\ coord.pc = "check"
    /\ IF cancelled
       THEN /\ stopped' = TRUE
            /\ coord' = [coord EXCEPT !.pc = "cwait"]
       ELSE /\ coord' = [coord EXCEPT !.pc = "submit"]
            /\ UNCHANGED stopped
    /\ UNCHANGED <<callVars, run, gen, fsVars, task, stats, queue, cancelled, mon>>

\* pool.Submit(task).  The queue holds len(files) tasks, so Submit never
\* waits for room; on a stopped pool it panics.
CoordSubmit ==
    /\ coord.pc = "submit"
    /\ IF stopped
       THEN /\ coord' = [coord EXCEPT !.pc = "panic"]
            /\ UNCHANGED <<queue, task>>
       ELSE /\ queue' = Append(queue, coord.i)
            /\ task' = [task EXCEPT ![coord.i].pc = "queued"]
            /\ coord' = [coord EXCEPT !.i = @ + 1,
                                      !.pc = IF coord.i = NumFiles THEN "stop"
                                             ELSE "check"]
    /\ UNCHANGED <<callVars, run, gen, fsVars, stats, cancelled, stopped, mon>>

\* The pool.StopAndWait() after the loop.
CoordStop ==
    /\ coord.pc = "stop"
    /\ stopped' = TRUE
    /\ coord' = [coord EXCEPT !.pc = "wait"]
    /\ UNCHANGED <<callVars, run, gen, fsVars, task, stats, queue, cancelled, mon>>

\* A processFiles that returns an error when a file failed.
CoordReturn_FailOnErrors ==
    /\ coord.pc \in {"wait", "cwait"}
    /\ PoolIdle
    /\ LET err == (coord.pc = "cwait") \/ cancelled \/ stats.Errors > 0 IN
       coord' = [coord EXCEPT !.pc = "done", !.err = err,
                              !.summary = ~err,
                              !.cleanup = ~err /\ run.Move /\ ~run.DryRun]
    /\ UNCHANGED <<callVars, run, gen, fsVars, task, stats, queue, cancelled, stopped, mon>>

\* StopAndWait returns and processFiles returns stats with the cancellation
\* error or nil; run returns the error, or prints the summary and goes on
\* to the cleanup of empty directories (made with --clean, in a move that is
\* not a dry run).
CoordReturn ==
    /\ coord.pc \in {"wait", "cwait"}
    /\ PoolIdle
    /\ LET err == (coord.pc = "cwait") \/ cancelled IN
       coord' = [coord EXCEPT !.pc = "done", !.err = err,
                              !.summary = ~err,
                              !.cleanup = ~err /\ run.Move /\ ~run.DryRun]
    /\ UNCHANGED <<callVars, run, gen, fsVars, task, stats, queue, cancelled, stopped, mon>>

\* The interrupt handler of run calls cancel().
Cancel ==
    /\ ~cancelled
    /\ coord.pc \notin {"done", "panic", "direct"}
    /\ cancelled' = TRUE
    /\ UNCHANGED <<callVars, run, gen, fsVars, task, stats, queue, coord, stopped, mon>>

\* The monitor goroutine: <-ctx.Done(), then pool.StopAndWait().
MonStop ==
    /\ Alive
    /\ mon = "idle"
    /\ cancelled
    /\ stopped' = TRUE
    /\ mon' = "waiting"
    /\ UNCHANGED <<callVars, run, gen, fsVars, task, stats, queue, coord, cancelled>>

MonDone ==
    /\ Alive
    /\ mon = "waiting"
    /\ PoolIdle
    /\ mon' = "done"
    /\ UNCHANGED <<callVars, run, gen, fsVars, task, stats, queue, coord, cancelled, stopped>>

\* ---------------------------------------------------------------- Spec
TaskStep(f) ==
    \/ TaskStart(f)
    \/ Resolve(f)
    \/ Verify(f)
    \/ Mkdir(f)
    \/ Recheck(f)
    \/ ReResolve(f)
    \/ ReVerify(f)
    \/ MvRename(f)
    \/ ScCreate(f)
    \/ ScWrite(f)
    \/ ScChmod(f)
    \/ ScRename(f)
    \/ ScFail(f)
    \/ MvRemove(f)
    \/ Meta(f)

Next ==
    \/ \E f \in Files : TaskStep(f)
    \/ CoordCheck
    \/ CoordSubmit
    \/ CoordStop
    \/ CoordReturn
    \/ Cancel
    \/ MonStop
    \/ MonDone

Spec == Init /\ [][Next]_vars

\* A second run of processFiles over the same sources, after a copy run that
\* organized every file.
Rerun ==
    /\ coord.pc = "done" /\ ~coord.err
    /\ run.n = 1 /\ ~run.Move /\ ~run.DryRun
    /\ \A f \in Files : task[f].res \in {"processed", "duplicate"}
    /\ run' = [run EXCEPT !.n = 2]
    /\ task' = [f \in Files |-> NewTask("idle", run.key[f])]
    /\ queue' = <<>>
    /\ coord' = [pc |-> "check", i |-> 1, err |-> FALSE, summary |-> FALSE,
                cleanup |-> FALSE]
    /\ cancelled' = FALSE
    /\ stopped' = FALSE
    /\ mon' = "idle"
    /\ stats' = [Processed |-> 0, Duplicates |-> 0, Skipped |-> 0, Errors |-> 0]
    /\ UNCHANGED <<callVars, gen, fsVars>>

\* Runs of a pool of one worker, where files are processed one after the
\* other, and a second run.  With one worker nothing is written between a
\* task's collision resolution and its recheck, so the recheck finds the
\* path free and its resolver call (ReResolve, ReVerify) is never made.
InitSeq == InitRun /\ run.workers = 1

SeqStep(f) ==
    \/ TaskStart(f)
    \/ Resolve(f)
    \/ Verify(f)
    \/ Mkdir(f)
    \/ Recheck(f)
    \/ MvRename(f)
    \/ ScCreate(f)
    \/ ScWrite(f)
    \/ ScChmod(f)
    \/ ScRename(f)
    \/ ScFail(f)
    \/ MvRemove(f)
    \/ Meta(f)

NextSeq ==
    \/ \E f \in Files : SeqStep(f)
    \/ CoordCheck
    \/ CoordSubmit
    \/ CoordStop
    \/ CoordReturn
    \/ Cancel
    \/ MonStop
    \/ MonDone
    \/ Rerun

SpecSeq == InitSeq /\ [][NextSeq]_vars

\* The direct calls of SafeCopy and SafeMove alone.
DirectStep(f) ==
    \/ MvRename(f)
    \/ ScCreate(f)
    \/ ScWrite(f)
    \/ ScChmod(f)
    \/ ScRename(f)
    \/ ScFail(f)
    \/ MvRemove(f)

NextDirect == \E f \in Files : DirectStep(f)

SpecDirect == InitDirect /\ [][NextDirect]_vars

\* A call of CheckAndResolve(source 1, candidate of key "a") on any tree:
\* the source present or missing, with or without a sidecar, each slot of
\* the candidate free or holding one of two contents, with or without a
\* sidecar of its own.
SlotPaths == {p \in Paths : p.k = "a" /\ Len(p.s) <= 1}

Occupants == {NoFile, Plain(1, "0644"), Plain(2, "0644")}

InitResolve ==
    /\ run = [Move |-> FALSE, DryRun |-> FALSE, workers |-> 1,
              key |-> [f \in Files |-> "a"], content |-> [f \in Files |-> 1],
              direct |-> TRUE, n |-> 1]
    /\ \E file \in {Plain(1, "0644"), NoFile} : src = [f \in Files |-> file]
    /\ \E side \in Occupants : srcOrig = [f \in Files |-> side]
    /\ \E d \in [SlotPaths -> Occupants] :
          dst = [p \in Paths |-> IF p \in SlotPaths THEN d[p] ELSE NoFile]
    /\ \E d \in [SlotPaths -> Occupants] :
          dstOrig = [p \in Paths |-> IF p \in SlotPaths THEN d[p] ELSE NoFile]
    /\ dirs = [k \in Keys |-> k = "a"]
    /\ tmp = [f \in Files |-> NoFile]
    /\ task = [f \in Files |-> NewTask(IF f = 1 THEN "call" ELSE "idle", "a")]
    /\ InitSched("direct")
    /\ gen = NoCall /\ scan = NoCall /\ cli = NoCall /\ vfy = NoCall

\* A resolver call that leaves a lock file beside the path it returns.
CallCheckAndResolve_Touch(f) ==
    /\ task[f].pc = "call"
    /\ LET r == CheckAndResolve(src[f], srcOrig[f], dst, dstOrig, task[f].dest) IN
       /\ task' = [task EXCEPT ![f].pc = "returned", ![f].final = r.path,
                               ![f].dup = r.dup,
                               ![f].err = IF r.err THEN "resolve" ELSE ""]
       /\ tmp' = [tmp EXCEPT ![f] = Plain(1, "0600")]
    /\ UNCHANGED <<callVars, run, gen, src, srcOrig, dst, dstOrig, dirs, stats, schedVars>>

CallCheckAndResolve(f) ==
    /\ task[f].pc = "call"
    /\ LET r == CheckAndResolve(src[f], srcOrig[f], dst, dstOrig, task[f].dest) IN
       task' = [task EXCEPT ![f].pc = "returned", ![f].final = r.path,
                            ![f].dup = r.dup,
                            ![f].err = IF r.err THEN "resolve" ELSE ""]
    /\ UNCHANGED <<callVars, run, gen, fsVars, stats, schedVars>>

\* A call of IsDuplicate(source 1, candidate of key "a") on the same trees.
CallIsDuplicate(f) ==
    /\ task[f].pc = "call"
    /\ LET r == IsDuplicate(src[f], srcOrig[f], dst, dstOrig, task[f].dest) IN
       task' = [task EXCEPT ![f].pc = "compared", ![f].dup = r.dup,
                            ![f].err = IF r.err THEN "hash" ELSE ""]
    /\ UNCHANGED <<callVars, run, gen, fsVars, stats, schedVars>>

NextResolve ==
    \E f \in Files :
       \/ CallCheckAndResolve(f)
       \/ CallIsDuplicate(f)

SpecResolve == InitResolve /\ [][NextResolve]_vars

\* ------------------------------------------------------- PathGenerator
\* Strings are sequences of tokens: a decimal digit, a separator, or a word
\* taken whole (a make, a model, an extension).
DigitChars == <<"0", "1", "2", "3", "4", "5", "6", "7", "8", "9">>

RECURSIVE Pow10(_)
Pow10(w) == IF w = 0 THEN 1 ELSE 10 * Pow10(w - 1)

\* fmt.Sprintf("%0<w>d", n) for 0 <= n < 10^w.
Pad(n, w) == [i \in 1..w |-> DigitChars[((n \div Pow10(w - i)) % 10) + 1]]

\* fmt.Sprintf("%d", n) for n >= 0.
RECURSIVE Dec(_)
Dec(n) == IF n < 10 THEN <<DigitChars[n + 1]>>
          ELSE Dec(n \div 10) \o <<DigitChars[(n % 10) + 1]>>

\* strings.Repeat("0", count) and the slice s[:count]; both panic on a
\* negative count.
Panic == <<"panic">>

Repeat0(count) == IF count < 0 THEN Panic ELSE [i \in 1..count |-> "0"]

Prefix(str, count) == IF count < 0 THEN Panic ELSE SubSeq(str, 1, count)

\* strings.ToLower on the words of the model.
ToLower(w) ==
    CASE w = "JPG" -> "jpg"
      [] w = "Jpg" -> "jpg"
      [] w = "CR2" -> "cr2"
      [] w = "Canon" -> "canon"
      [] w = "EOS" -> "eos"
      [] w = "Unknown" -> "unknown"
      [] OTHER -> w

\* The largest precision a call is made with; the flag takes any integer.
MaxPrecision == 8

NoTime == [nil |-> TRUE, Y |-> 0, M |-> 0, D |-> 0, h |-> 0, m |-> 0,
           s |-> 0, ns |-> 0]

DateTimes ==
    {NoTime} \cup
    {[nil |-> FALSE, Y |-> d[1], M |-> d[2], D |-> d[3], h |-> d[4],
      m |-> d[5], s |-> d[6], ns |-> ns] :
        d \in {<<2024, 1, 2, 3, 4, 5>>, <<987, 12, 31, 23, 59, 59>>},
        ns \in {0, 500, 7000, 123456000, 999999999}}

generateSubsecPart(pg, metadata) ==
    IF metadata.DateTime.nil \/ metadata.DateTime.ns = 0
    THEN Repeat0(pg.Precision)
    ELSE LET microseconds == metadata.DateTime.ns \div 1000
             fullSubsec == Pad(microseconds, 6)
         IN  IF pg.Precision > 6 THEN fullSubsec
             ELSE Prefix(fullSubsec, pg.Precision)

\* The camera part with the separator kept in legacy naming.
generateCameraPart_AlwaysDash(pg, metadata) ==
    LET hasMake == metadata.Make # ""
        hasModel == metadata.Model # ""
    IN  IF hasMake /\ hasModel
        THEN <<metadata.Make, "-", metadata.Model>>
        ELSE IF hasMake THEN <<metadata.Make>>
        ELSE IF hasModel THEN <<metadata.Model>>
        ELSE <<"Unknown">>

generateCameraPart(pg, metadata) ==
    LET hasMake == metadata.Make # ""
        hasModel == metadata.Model # ""
    IN  IF hasMake /\ hasModel
        THEN IF pg.OldNaming THEN <<metadata.Make, metadata.Model>>
             ELSE <<metadata.Make, "-", metadata.Model>>
        ELSE IF hasMake THEN <<metadata.Make>>
        ELSE IF hasModel THEN <<metadata.Model>>
        ELSE <<"Unknown">>

\* The filename with the increment written before the camera part.
GenerateFilename_IncrementFirst(pg, metadata, extension, increment) ==
    LET camera == generateCameraPart(pg, metadata)
        incrementStr == IF increment > 0 THEN <<"_">> \o Dec(increment) ELSE <<>>
        ext == ToLower(extension)
        dt == metadata.DateTime
    IN  IF dt.nil
        THEN <<"unknown">> \o incrementStr \o <<"_">> \o camera \o <<".", ext>>
        ELSE LET datePart == Pad(dt.Y, 4) \o Pad(dt.M, 2) \o Pad(dt.D, 2) \o <<"-">>
                               \o Pad(dt.h, 2) \o Pad(dt.m, 2) \o Pad(dt.s, 2)
                 subsec == generateSubsecPart(pg, metadata)
             IN  IF subsec = Panic THEN Panic
                 ELSE datePart \o <<".">> \o subsec \o incrementStr \o <<"_">>
                        \o camera \o <<".", ext>>

GenerateFilename(pg, metadata, extension, increment) ==
    LET camera == generateCameraPart(pg, metadata)
        incrementStr == IF increment > 0 THEN <<"_">> \o Dec(increment) ELSE <<>>
        ext == ToLower(extension)
        dt == metadata.DateTime
    IN  IF dt.nil
        THEN <<"unknown", "_">> \o camera \o incrementStr \o <<".", ext>>
        ELSE LET datePart == Pad(dt.Y, 4) \o Pad(dt.M, 2) \o Pad(dt.D, 2) \o <<"-">>
                               \o Pad(dt.h, 2) \o Pad(dt.m, 2) \o Pad(dt.s, 2)
                 subsec == generateSubsecPart(pg, metadata)
             IN  IF subsec = Panic THEN Panic
                 ELSE datePart \o <<".">> \o subsec \o <<"_">> \o camera
                        \o incrementStr \o <<".", ext>>

\* The directory with the dated layout for every record.
GenerateDirectory_AlwaysDated(metadata, baseDir) ==
    LET dt == metadata.DateTime
        year == Pad(dt.Y, 4)
        month == Pad(dt.M, 2)
        day == Pad(dt.D, 2)
    IN  <<baseDir, year, month, year \o <<"-">> \o month \o <<"-">> \o day>>

\* A directory is the sequence of its path components.
GenerateDirectory(metadata, baseDir) ==
    IF metadata.DateTime.nil
    THEN <<baseDir, <<"unknown">>>>
    ELSE LET dt == metadata.DateTime
             year == Pad(dt.Y, 4)
             month == Pad(dt.M, 2)
             day == Pad(dt.D, 2)
         IN  <<baseDir, year, month,
               year \o <<"-">> \o month \o <<"-">> \o day>>

\* strings.EqualFold.
EqualFold(a, b) ==
    /\ Len(a) = Len(b)
    /\ \A i \in 1..Len(a) : ToLower(a[i]) = ToLower(b[i])

\* verifyFile's comparison for a file named currentFilename whose metadata
\* is meta: the expected name is generated with precision 6, modern naming
\* and increment 0, from the extension found in the name.
VerifyMatches(currentFilename, meta) ==
    LET pg == [Precision |-> 6, OldNaming |-> FALSE]
        ext == currentFilename[Len(currentFilename)]
        expectedFilename == GenerateFilename(pg, meta, ext, 0)
    IN  EqualFold(currentFilename, expectedFilename)

\* A call pg.GeneratePath(metadata, baseDir, extension, increment).
InitPath ==
    /\ run = [Move |-> FALSE, DryRun |-> FALSE, workers |-> 1,
              key |-> [f \in Files |-> "a"], content |-> [f \in Files |-> 1],
              direct |-> TRUE, n |-> 1]
    /\ src = [f \in Files |-> Plain(1, "0644")]
    /\ srcOrig = [f \in Files |-> NoFile]
    /\ dst = [p \in Paths |-> NoFile]
    /\ dstOrig = [p \in Paths |-> NoFile]
    /\ dirs = [k \in Keys |-> FALSE]
    /\ tmp = [f \in Files |-> NoFile]
    /\ task = [f \in Files |-> NewTask("idle", "a")]
    /\ InitSched("direct")
    /\ scan = NoCall /\ cli = NoCall /\ vfy = NoCall
    /\ gen \in [pc : {"call"},
                pg : [Precision : -1..MaxPrecision, OldNaming : BOOLEAN],
                metadata : [DateTime : DateTimes, Make : {"", "Canon"},
                            Model : {"", "EOS"}],
                baseDir : {<<"base">>},
                extension : {"jpg", "JPG", "CR2"},
                increment : 0..CollisionLimit,
                directory : {<<>>}, filename : {<<>>}, verified : {""},
                suffixed : {<<>>}]

CallGeneratePath ==
    /\ gen.pc = "call"
    /\ LET directory == GenerateDirectory(gen.metadata, gen.baseDir)
           filename == GenerateFilename(gen.pg, gen.metadata, gen.extension,
                                        gen.increment)
       IN  gen' = IF filename = Panic
                  THEN [gen EXCEPT !.pc = "panic"]
                  ELSE [gen EXCEPT !.pc = "returned", !.directory = directory,
                                   !.filename = filename]
    /\ UNCHANGED <<callVars, run, fsVars, task, stats, schedVars>>

\* verifyFile on the file placed under the generated name.  Extract gives
\* every file a timestamp, so only dated names are verified.
CallVerify ==
    /\ gen.pc = "returned"
    /\ ~gen.metadata.DateTime.nil
    /\ gen' = [gen EXCEPT !.pc = "verified",
                          !.verified = IF VerifyMatches(gen.filename, gen.metadata)
                                       THEN "matched" ELSE "mismatch"]
    /\ UNCHANGED <<callVars, run, fsVars, task, stats, schedVars>>

\* filepath.Join(directory, filename): the directory's components and the
\* name.
GeneratePath(pg, metadata, baseDir, extension, increment) ==
    LET directory == GenerateDirectory(metadata, baseDir)
        filename == GenerateFilename(pg, metadata, extension, increment)
    IN  IF filename = Panic THEN Panic ELSE Append(directory, filename)

\* Position of the last "." of a name (0 when it has none).
RECURSIVE LastDot(_, _)
LastDot(base, i) ==
    IF i = 0 THEN 0
    ELSE IF base[i] = "." THEN i
    ELSE LastDot(base, i - 1)

\* filepath.Ext: the suffix of the name from its last dot on.
Ext(base) ==
    LET i == LastDot(base, Len(base))
    IN  IF i = 0 THEN <<>> ELSE SubSeq(base, i, Len(base))

\* A suffix put after the extension.
addIncrementStr_AfterExt(path, increment) ==
    LET dir == SubSeq(path, 1, Len(path) - 1)
        base == path[Len(path)]
    IN  Append(dir, base \o <<"_">> \o Dec(increment))

\* duplicate.addIncrement on a path as GeneratePath returns it.
addIncrementStr(path, increment) ==
    LET dir == SubSeq(path, 1, Len(path) - 1)
        base == path[Len(path)]
        ext == Ext(base)
        stem == SubSeq(base, 1, Len(base) - Len(ext))
        newStem == stem \o <<"_">> \o Dec(increment)
    IN  Append(dir, newStem \o ext)

\* ResolveCollision's way to the path of increment N: addIncrement on the
\* path generated with increment 0.
CallAddIncrement ==
    /\ gen.pc = "returned"
    /\ gen.increment >= 1
    /\ LET initialPath == GeneratePath(gen.pg, gen.metadata, gen.baseDir,
                                       gen.extension, 0)
       IN  gen' = [gen EXCEPT !.pc = "suffixed",
                              !.suffixed = addIncrementStr(initialPath,
                                                           gen.increment)]
    /\ UNCHANGED <<callVars, run, fsVars, task, stats, schedVars>>

NextPath == CallGeneratePath \/ CallVerify \/ CallAddIncrement

SpecPath == InitPath /\ [][NextPath]_vars

\* -------------------------------------------------------- collectFiles
\* The pipeline's variables when no run of processFiles is looked at.
InitNoRun ==
    /\ run = [Move |-> FALSE, DryRun |-> FALSE, workers |-> 1,
              key |-> [f \in Files |-> "a"], content |-> [f \in Files |-> 1],
              direct |-> TRUE, n |-> 1]
    /\ src = [f \in Files |-> Plain(1, "0644")]
    /\ srcOrig = [f \in Files |-> NoFile]
    /\ dst = [p \in Paths |-> NoFile]
    /\ dstOrig = [p \in Paths |-> NoFile]
    /\ dirs = [k \in Keys |-> FALSE]
    /\ tmp = [f \in Files |-> NoFile]
    /\ task = [f \in Files |-> NewTask("idle", "a")]
    /\ InitSched("direct")

pipeVars == <<run, fsVars, task, stats, schedVars>>

\* The most source directories a call is given.
MaxSources == 2

ValidExtensions == {"jpg", "jpeg", "png", "cr2", "mov"}

\* rename.IsValidExtension.
IsValidExtension(ext) == ToLower(ext) \in ValidExtensions

\* The directory entries a tree can hold, in the order a walk meets them:
\* directory /A with subdirectory /A/sub, and directory /B.
Entries ==
    << [dir |-> "/A", name |-> "d", ext |-> "jpg", kind |-> "dir"],
       [dir |-> "/A/sub", name |-> "w", ext |-> "txt", kind |-> "file"],
       [dir |-> "/A/sub", name |-> "z", ext |-> "JPG", kind |-> "file"],
       [dir |-> "/A", name |-> "x", ext |-> "jpg", kind |-> "file"],
       [dir |-> "/A", name |-> "y", ext |-> "", kind |-> "file"],
       [dir |-> "/B", name |-> "v", ext |-> "cr2", kind |-> "file"] >>

\* The ways a source directory is spelled on the command line.
Spellings == {"A", "./A", "A/sub", "B", "missing"}

\* filepath.Join(sourceDir, rel): the walked path of a directory, before
\* filepath.Abs.
Walked(sourceDir, rel) == <<sourceDir, rel>>

\* filepath.Abs of a walked directory.
Abs(w) ==
    CASE w \in {<<"A", "">>, <<"./A", "">>} -> "/A"
      [] w \in {<<"A", "sub">>, <<"./A", "sub">>, <<"A/sub", "">>} -> "/A/sub"
      [] w = <<"B", "">> -> "/B"
      [] OTHER -> "/missing"

\* The directories a walk from sourceDir visits (rel: path below the root),
\* and the one a ReadDir lists.
WalkDirs(sourceDir) ==
    IF sourceDir \in {"A", "./A"} THEN {"", "sub"} ELSE {""}

ReadDirs(sourceDir) == {""}

\* The files of one source directory that collectFiles looks at, as
\* <<absolute path>> in walk order: directory entries are passed over, and
\* so is every name without a valid extension.
RECURSIVE Listing(_, _, _, _)
Listing(tree, sourceDir, rels, i) ==
    IF i > Len(Entries) THEN <<>>
    ELSE LET e == Entries[i]
             here == {rel \in rels : Abs(Walked(sourceDir, rel)) = e.dir}
             rest == Listing(tree, sourceDir, rels, i + 1)
         IN  IF i \in tree /\ here # {} /\ e.kind # "dir"
                /\ IsValidExtension(e.ext)
             THEN <<[dir |-> Abs(Walked(sourceDir, CHOOSE rel \in here : TRUE)),
                     name |-> e.name, ext |-> e.ext]>> \o rest
             ELSE rest

\* Appending every path, seen or not.
RECURSIVE AppendUnseen_NoDedupe(_, _)
AppendUnseen_NoDedupe(st, paths) ==
    IF paths = <<>> THEN st
    ELSE AppendUnseen_NoDedupe([files |-> Append(st.files, Head(paths)),
                                seen |-> st.seen \cup {Head(paths)}],
                               Tail(paths))

\* Appending the paths not seen yet.
RECURSIVE AppendUnseen(_, _)
AppendUnseen(st, paths) ==
    IF paths = <<>> THEN st
    ELSE LET absPath == Head(paths) IN
         AppendUnseen(IF absPath \in st.seen THEN st
                      ELSE [files |-> Append(st.files, absPath),
                            seen |-> st.seen \cup {absPath}],
                      Tail(paths))

\* A call collectFiles(sourceDirs, recursive) on a tree (the set of the
\* entries that exist).
InitCollect ==
    /\ InitNoRun
    /\ gen = NoCall /\ cli = NoCall /\ vfy = NoCall
    /\ \E n \in 1..MaxSources :
          scan \in [pc : {"loop"}, tree : SUBSET (1..Len(Entries)),
                    sourceDirs : [1..n -> Spellings], recursive : BOOLEAN,
                    i : {1}, files : {<<>>}, seen : {{}}]

\* One iteration of the loop over sourceDirs: WalkDir or ReadDir fails on a
\* directory that does not exist; otherwise its files are appended.
ScanDir ==
    /\ scan.pc = "loop"
    /\ scan.i <= Len(scan.sourceDirs)
    /\ LET sourceDir == scan.sourceDirs[scan.i] IN
       IF Abs(Walked(sourceDir, "")) = "/missing"
       THEN scan' = [scan EXCEPT !.pc = "failed", !.files = <<>>]
       ELSE LET rels == IF scan.recursive THEN WalkDirs(sourceDir)
                        ELSE ReadDirs(sourceDir)
                st == AppendUnseen([files |-> scan.files, seen |-> scan.seen],
                                   Listing(scan.tree, sourceDir, rels, 1))
            IN  scan' = [scan EXCEPT !.i = @ + 1, !.files = st.files,
                                     !.seen = st.seen]
    /\ UNCHANGED <<gen, cli, vfy, pipeVars>>

\* return files, nil.
ScanReturn ==
    /\ scan.pc = "loop"
    /\ scan.i > Len(scan.sourceDirs)
    /\ scan' = [scan EXCEPT !.pc = "returned"]
    /\ UNCHANGED <<gen, cli, vfy, pipeVars>>

NextCollect == ScanDir \/ ScanReturn

SpecCollect == InitCollect /\ [][NextCollect]_vars

\* ------------------------------------------------------------------ run
\* An invocation of run: exiftool is installed or not, the mode flags (cobra
\* has refused --copy together with --move before run is called), --clean,
\* and for each source argument whether the directory exists.
InitInvoke ==
    /\ InitNoRun
    /\ gen = NoCall /\ scan = NoCall /\ vfy = NoCall
    /\ \E n \in 1..MaxSources :
          cli \in [pc : {"tool"}, exiftool : BOOLEAN,
                   copyMode : BOOLEAN, moveMode : BOOLEAN, clean : BOOLEAN,
                   sources : [1..n -> BOOLEAN], k : {1}, err : {""},
                   discovered : {FALSE}, submitted : {FALSE}]
    /\ ~(cli.copyMode /\ cli.moveMode)

Reject(e) == [cli EXCEPT !.pc = "returned", !.err = e]

\* checkExifTool.
RunCheckExifTool ==
    /\ cli.pc = "tool"
    /\ cli' = IF cli.exiftool THEN [cli EXCEPT !.pc = "flags"]
              ELSE Reject("exiftool not found")
    /\ UNCHANGED <<gen, scan, vfy, pipeVars>>

\* A run that accepts --clean without --move.
RunValidateFlags_NoCleanCheck ==
    /\ cli.pc = "flags"
    /\ cli' = IF ~cli.copyMode /\ ~cli.moveMode
              THEN Reject("must specify either --copy or --move")
              ELSE [cli EXCEPT !.pc = "paths"]
    /\ UNCHANGED <<gen, scan, vfy, pipeVars>>

\* The two flag checks.
RunValidateFlags ==
    /\ cli.pc = "flags"
    /\ cli' = IF ~cli.copyMode /\ ~cli.moveMode
              THEN Reject("must specify either --copy or --move")
              ELSE IF cli.clean /\ ~cli.moveMode
              THEN Reject("--clean requires --move")
              ELSE [cli EXCEPT !.pc = "paths"]
    /\ UNCHANGED <<gen, scan, vfy, pipeVars>>

\* One iteration of the loop over sourceDirs: os.Stat.
RunValidatePath ==
    /\ cli.pc = "paths"
    /\ cli' = IF cli.k > Len(cli.sources) THEN [cli EXCEPT !.pc = "collect"]
              ELSE IF ~cli.sources[cli.k]
              THEN Reject("source directory does not exist")
              ELSE [cli EXCEPT !.k = @ + 1]
    /\ UNCHANGED <<gen, scan, vfy, pipeVars>>

\* collectFiles: it fails, finds no file (run returns nil), or finds some.
RunCollect ==
    /\ cli.pc = "collect"
    /\ \/ cli' = [cli EXCEPT !.pc = "returned", !.err = "collect",
                             !.discovered = TRUE]
       \/ cli' = [cli EXCEPT !.pc = "returned", !.discovered = TRUE]
       \/ cli' = [cli EXCEPT !.pc = "process", !.discovered = TRUE]
    /\ UNCHANGED <<gen, scan, vfy, pipeVars>>

\* processFiles, and what follows it.
RunProcess ==
    /\ cli.pc = "process"
    /\ \/ cli' = [cli EXCEPT !.pc = "returned", !.submitted = TRUE]
       \/ cli' = [cli EXCEPT !.pc = "returned", !.submitted = TRUE,
                             !.err = "processing canceled by user"]
    /\ UNCHANGED <<gen, scan, vfy, pipeVars>>

NextInvoke ==
    \/ RunCheckExifTool
    \/ RunValidateFlags
    \/ RunValidatePath
    \/ RunCollect
    \/ RunProcess

SpecInvoke == InitInvoke /\ [][NextInvoke]_vars

\* ---------------------------------------------------------- verify --fix
\* The files of one directory that a verify run is given.
NumVerify == 3

\* verifyFiles: workers := 4.
VerifyWorkers == 4

VFiles == 1..NumVerify

\* The names in the directory: file f is at name f; name 0 is one more name,
\* taken or not.
VNames == 0..NumVerify

\* No file at a name.
Absent == 0

\* A verify run: file f, of content f, is at name f; expected[c] is the name
\* GenerateFilename gives for the metadata of content c (its own name: the
\* file matches); the content NumVerify + 1 is a file that is not verified.
InitVerify ==
    /\ InitNoRun
    /\ gen = NoCall /\ scan = NoCall /\ cli = NoCall
    /\ vfy \in [fix : BOOLEAN,
                dir : {d \in [VNames -> 0..(NumVerify + 1)] :
                          /\ \A f \in VFiles : d[f] = f
                          /\ d[0] \in {Absent, NumVerify + 1}},
                expected : [VFiles -> VNames],
                pc : {[f \in VFiles |-> "queued"]},
                target : {[f \in VFiles |-> 0]},
                stats : {[Verified |-> 0, Matched |-> 0, Mismatches |-> 0,
                          Fixed |-> 0, Errors |-> 0]}]

VRunning == {f \in VFiles : vfy.pc[f] \notin {"queued", "done"}}

VBump(st, c) == [st EXCEPT ![c] = @ + 1]

\* A worker takes the task of file f: Extract reads the file at its name,
\* the expected name is generated from what it read and compared.
VfCompare(f) ==
    /\ vfy.pc[f] = "queued"
    /\ Cardinality(VRunning) < VerifyWorkers
    /\ LET c == vfy.dir[f]
           st == VBump(vfy.stats, "Verified")
       IN
       IF c \notin VFiles
       THEN vfy' = [vfy EXCEPT !.pc[f] = "done", !.stats = VBump(st, "Errors")]
       ELSE IF vfy.expected[c] = f
       THEN vfy' = [vfy EXCEPT !.pc[f] = "done", !.stats = VBump(st, "Matched")]
       ELSE vfy' = [vfy EXCEPT !.pc[f] = IF vfy.fix THEN "stat" ELSE "done",
                               !.target[f] = vfy.expected[c],
                               !.stats = VBump(st, "Mismatches")]
    /\ UNCHANGED <<gen, scan, cli, pipeVars>>

\* os.Stat(expectedPath): a target that exists is left alone.
VfStat(f) ==
    /\ vfy.pc[f] = "stat"
    /\ vfy' = [vfy EXCEPT !.pc[f] = IF vfy.dir[vfy.target[f]] # Absent
                                    THEN "done" ELSE "rename"]
    /\ UNCHANGED <<gen, scan, cli, pipeVars>>

\* os.Rename(file, expectedPath): it replaces whatever is at the target; it
\* fails when the file is no longer at its name.
VfRename(f) ==
    /\ vfy.pc[f] = "rename"
    /\ IF vfy.dir[f] = Absent
       THEN vfy' = [vfy EXCEPT !.pc[f] = "done",
                               !.stats = VBump(vfy.stats, "Errors")]
       ELSE vfy' = [vfy EXCEPT !.pc[f] = "done",
                               !.dir = [@ EXCEPT ![vfy.target[f]] = vfy.dir[f],
                                                 ![f] = Absent],
                               !.stats = VBump(vfy.stats, "Fixed")]
    /\ UNCHANGED <<gen, scan, cli, pipeVars>>

NextVerify == \E f \in VFiles : VfCompare(f) \/ VfStat(f) \/ VfRename(f)

SpecVerify == InitVerify /\ [][NextVerify]_vars

\* =============================================================== claims
\* The positions of a task inside SafeCopy, and the errors SafeCopy returns.
ScPcs == {"sc_create", "sc_write", "sc_chmod", "sc_rename", "sc_fail"}

CopyErrors == {"read", "create", "write", "close", "stat", "chmod", "rename"}

\* The hash the detector compares: of the sidecar's bytes when there is one.
ContentHash(file, side) == IF Exists(side) THEN Bytes(side) ELSE Bytes(file)

SourceHash(f) == Bytes(Plain(run.content[f], "0644"))

\* C1: a destination path that has been published is never replaced by
\* different content, and when the run is over every transferred file's
\* content is at its own path, distinct from every other file's.
\* Two workers refute it: both tasks find the candidate free in the recheck
\* and the second rename replaces the first file.
C1_NeverReplaced ==
    /\ [][~run.direct =>
            \A p \in Paths : Exists(dst[p]) => dst'[p].id = dst[p].id]_vars
    /\ [](coord.pc = "done" =>
            \A f, g \in Files :
               (f # g /\ task[f].wrote /\ task[g].wrote) =>
                  /\ task[f].dest # task[g].dest
                  /\ dst[task[f].dest].id = run.content[f])

\* C2: in move mode, at every moment each input file's bytes are at the
\* source path or, complete, at a destination path.
\* The same race refutes it: the first file moved is replaced by the second.
C2_BytesSomewhere ==
    (run.Move /\ ~run.DryRun) =>
       \A f \in Files :
          \/ Exists(src[f])
          \/ \E p \in Paths : dst[p].id = run.content[f] /\ dst[p].full

C4_DuplicateIsLeftAlone ==
    [][\A f \in Files :
         (/\ task[f].pc = "verify"
          /\ Exists(dst[task[f].final])
          /\ Bytes(dst[task[f].final]) = Bytes(src[f])
          /\ task'[f].pc # "verify"
          /\ task'[f].res # "error")
         => /\ task'[f].dup
            /\ task'[f].pc = "done" /\ task'[f].res = "duplicate"
            /\ ~task'[f].wrote
            /\ stats' = [stats EXCEPT !.Duplicates = @ + 1]
            /\ fsVars' = fsVars]_vars

C4_Witness ==
    \E f \in Files :
       /\ run.Move
       /\ task[f].res = "duplicate" /\ task[f].dup
       /\ Exists(src[f])
       /\ Bytes(dst[task[f].dest]) = Bytes(src[f])
       /\ stats.Duplicates >= 1

\* C5: CheckAndResolve returns isDuplicate = true exactly when the path it
\* returns exists and the content hash of its occupant equals the content
\* hash of the source (each taken from the "_original" sidecar when there is
\* one); with an error it returns false.
C5_DuplicateIffSameHash ==
    \A f \in Files :
       task[f].pc = "returned" =>
          IF task[f].err # "" THEN ~task[f].dup
          ELSE task[f].dup <=>
                 /\ Exists(dst[task[f].final])
                 /\ ContentHash(dst[task[f].final], dstOrig[task[f].final])
                      = ContentHash(src[f], srcOrig[f])

C5_Witness ==
    \E f \in Files :
       /\ task[f].pc = "returned" /\ task[f].dup
       /\ task[f].final.s = <<1>>
       /\ Exists(srcOrig[f])

\* C6: a second run over the same sources and the tree a completed copy run
\* produced classifies every file as a duplicate and writes nothing.
\* It fails when the tag writer rewrote a destination file without leaving
\* an "_original" sidecar: the file no longer hashes like its source.
C6_SecondRunWritesNothing ==
    run.n = 2 =>
       \A f \in Files :
          /\ task[f].pc \in {"idle", "queued", "resolve", "verify", "done"}
          /\ task[f].pc = "done" => task[f].res \in {"duplicate", "canceled", "error"}

\* C7: every file at a destination path is complete and holds the content
\* of one source file (or is a file the archive had before the run); partial
\* content exists only under a temporary name.
C7_PublishedFilesAreComplete ==
    \A p \in Paths :
       /\ dst[p].full /\ dstOrig[p].full
       /\ Exists(dst[p]) =>
             \/ \E f \in Files : dst[p].id = run.content[f]
             \/ \E n \in 0..CollisionLimit : dst[p].id = Foreign(n).id

C7_Witness ==
    \E f \in Files :
       /\ task[f].pc = "sc_fail" /\ task[f].err = "write"
       /\ Exists(tmp[f]) /\ ~tmp[f].full
       /\ ~Exists(dst[task[f].dest])

\* C8: when SafeCopy returns an error, whichever step failed, the temp file
\* of the call is gone and the destination path is as it was: no step of
\* SafeCopy but the successful rename changes a destination path.
C8_FailedCopyLeavesNothing ==
    /\ [](\A f \in Files :
            (task[f].pc = "returned" /\ task[f].err \in CopyErrors) =>
               ~Exists(tmp[f]) /\ ~task[f].wrote)
    /\ [][\A f \in Files :
            (/\ task[f].pc \in ScPcs
             /\ ~(task[f].pc = "sc_rename" /\ task'[f].err = ""))
            => dst' = dst /\ dstOrig' = dstOrig]_vars

C8_Witness ==
    \E f \in Files :
       /\ task[f].pc = "returned" /\ task[f].err = "rename"
       /\ ~Exists(tmp[f])
       /\ dst[task[f].dest] = Foreign(0)

\* C9: SafeCopy leaves the source as it is, and on success the destination
\* file has the source's bytes and the source's permission bits.
C9_CopyKeepsSourceAndMode ==
    [][\A f \in Files :
         task[f].pc \in ScPcs =>
            /\ src' = src /\ srcOrig' = srcOrig
            /\ (task[f].pc = "sc_rename" /\ task'[f].err = "") =>
                  dst'[task[f].dest] = src[f]]_vars

C9_Witness ==
    \E f \in Files :
       /\ ~run.Move
       /\ task[f].pc = "returned" /\ task[f].err = "" /\ task[f].wrote
       /\ src[f].mode = "0644"
       /\ dst[task[f].dest] = src[f]

\* C10 as stated: the copy operation creates the destination directory when
\* it is absent, so once SafeCopy has read its source and returned, the
\* directory exists.
C10_CopyCreatesDirectory ==
    \A f \in Files :
       (/\ run.direct /\ ~run.Move
        /\ task[f].pc = "returned"
        /\ task[f].err # "read")
       => dirs[task[f].dest.k]

\* C10, amended: Perform creates the destination directory before the
\* transfer starts, so inside a run SafeCopy and SafeMove always find it;
\* SafeCopy itself creates no directory, and a call for a destination whose
\* directory is absent fails before anything is written.
C10_PerformCreatesDirectory ==
    \A f \in Files :
       /\ (~run.direct /\ task[f].pc \in
              ScPcs \cup {"recheck", "re_resolve", "re_verify", "mv_rename",
                          "mv_remove", "meta"})
          => dirs[task[f].dest.k]
       /\ (run.direct /\ ~run.Move /\ task[f].pc = "returned"
             /\ ~dirs[task[f].dest.k])
          => /\ task[f].err \in {"read", "create"}
             /\ ~task[f].wrote
             /\ ~Exists(dst[task[f].dest])

C10_Witness ==
    \E f \in Files :
       /\ ~run.direct
       /\ task[f].dest.k = "b"
       /\ task[f].pc = "sc_write"
       /\ dirs["b"]

\* C11: SafeMove runs SafeCopy only after its rename failed with EXDEV; a
\* rename that fails otherwise makes SafeMove return "failed to move file"
\* at once, with the source, the destination and everything else on disk as
\* they were.
C11_FallbackOnlyOnEXDEV ==
    /\ [](\A f \in Files :
            /\ task[f].inMove => task[f].mvErr = "EXDEV"
            /\ (task[f].pc = "returned" /\ task[f].err = "move") =>
                  /\ task[f].mvErr = "" /\ ~task[f].wrote
                  /\ ~Exists(tmp[f]))
    /\ [][\A f \in Files :
            (task[f].pc = "mv_rename" /\ task'[f].err = "move") =>
               /\ task'[f].pc = "returned"
               /\ fsVars' = fsVars]_vars

C11_Witness ==
    \E f \in Files :
       /\ task[f].pc = "returned" /\ task[f].err = "move"
       /\ Exists(src[f]) /\ dirs[task[f].dest.k]
       /\ dst[task[f].dest] = Foreign(0)

\* C12: when the fallback copy of a cross-device SafeMove fails, SafeMove
\* returns the error and the source is still there with its content; the
\* source is removed only when the direct rename moved it or when the
\* destination already holds the complete copy.
C12_SourceKeptUnlessCopied ==
    /\ [](\A f \in Files :
            (/\ task[f].pc = "returned"
             /\ task[f].mvErr = "EXDEV"
             /\ task[f].err \in CopyErrors)
            => /\ src[f] \in {Plain(run.content[f], m) : m \in Modes}
               /\ ~task[f].wrote)
    /\ [][\A f \in Files :
            src'[f] # src[f] =>
               \/ task[f].pc = "mv_rename" /\ dst'[task[f].dest] = src[f]
               \/ task[f].pc = "mv_remove" /\ dst[task[f].dest] = src[f]]_vars

C12_Witness ==
    \E f \in Files :
       /\ task[f].pc = "returned"
       /\ task[f].mvErr = "EXDEV" /\ task[f].err = "write"
       /\ Exists(src[f]) /\ src[f].id = run.content[f]
       /\ ~Exists(dst[task[f].dest])

\* C13: a SafeMove that succeeds, by the direct rename or by the cross-device
\* fallback, ends the same: the destination is the file the source was, in
\* bytes and permission bits, the source is gone, and no temp file is left;
\* until then the source is as it was.
C13_MoveRoutesAgree ==
    [][\A f \in Files :
         /\ (run.Move /\ ~task[f].wrote /\ task'[f].wrote) =>
               /\ dst'[task[f].dest] = src[f]
               /\ ~Exists(src'[f])
               /\ ~Exists(tmp'[f])
         /\ (run.Move /\ src'[f] # src[f]) => task'[f].wrote]_vars

C13_Witness ==
    \E f \in Files :
       /\ task[f].pc = "returned" /\ task[f].err = "" /\ task[f].wrote
       /\ task[f].mvErr = "EXDEV"
       /\ ~Exists(src[f])
       /\ dst[task[f].dest] = Plain(run.content[f], "0644")

C15_FailuresAreIsolated ==
    /\ [][\A f \in Files :
            (task'[f].res = "error" /\ task[f].res # "error") =>
               /\ stats' = [stats EXCEPT !.Errors = @ + 1]
               /\ \A g \in Files \ {f} : task'[g] = task[g]
               /\ <<src, srcOrig, dst, dstOrig, dirs>>'
                     = <<src, srcOrig, dst, dstOrig, dirs>>
               /\ \A g \in Files \ {f} : tmp'[g] = tmp[g]
               /\ <<coord, cancelled, stopped, mon>>'
                     = <<coord, cancelled, stopped, mon>>]_vars
    /\ [](~run.direct =>
            /\ stats.Errors = Cardinality({f \in Files : task[f].res = "error"})
            /\ stats.Processed
                 = Cardinality({f \in Files : task[f].res = "processed"})
            /\ stats.Duplicates
                 = Cardinality({f \in Files : task[f].res = "duplicate"}))
    /\ []((coord.pc = "done" /\ ~cancelled) =>
            /\ ~coord.err
            /\ \A f \in Files :
                  /\ task[f].pc = "done"
                  /\ task[f].res \in {"processed", "duplicate", "error"})

C15_Witness ==
    /\ coord.pc = "done" /\ ~coord.err /\ ~cancelled
    /\ stats.Errors = 1
    /\ stats.Processed = NumFiles - 1
    /\ task[1].res = "error"
    /\ \A f \in Files \ {1} :
          /\ task[f].res = "processed" /\ task[f].wrote
          /\ dst[task[f].dest].id = run.content[f]

\* C16: once the cancellation is set, a task that has not passed the check
\* at the start of its body never begins processing its file, and a task
\* that has passed it is not cut off: the run does not end while it is in
\* flight.
\* It fails when the submit loop has passed its own check before the
\* cancellation: the monitor goroutine stops the pool, the Submit that
\* follows panics, and the process ends with tasks in flight.
C16_CancellationIsCooperative ==
    /\ [][\A f \in Files :
            (cancelled /\ task[f].pc \in {"idle", "queued"}) =>
               \/ task'[f].pc \in {"idle", "queued"}
               \/ task'[f].pc = "done" /\ task'[f].res = "canceled"]_vars
    /\ [](\A f \in Files : Running(f) => Alive)

\* C17: the pool's queue is bounded independently of the number of files:
\* Submit waits once the queue is full, so the queue never holds every
\* discovered file at once.
\* It fails: the queue is made with room for len(files) tasks, Submit never
\* waits, and the loop can queue every file before a worker starts one.
C17_QueueIsBounded == Len(queue) < NumFiles

\* The slot n of the call's candidate, and what the resolver sees in it.
Slot(f, n) == IF n = 0 THEN task[f].dest ELSE addIncrement(task[f].dest, n)

SlotFree(f, n) == ~Exists(dst[Slot(f, n)])

SlotMatches(f, n) ==
    /\ Exists(dst[Slot(f, n)])
    /\ ContentHash(dst[Slot(f, n)], dstOrig[Slot(f, n)])
         = ContentHash(src[f], srcOrig[f])

SlotDiffers(f, n) == ~SlotFree(f, n) /\ ~SlotMatches(f, n)

SourceHashable(f) == Exists(src[f]) \/ Exists(srcOrig[f])

\* C18: the resolver ends after the initial candidate and the slots _1 to
\* _limit at most: with all of them taken by other content it returns the
\* "too many collisions" error and no path, and with slot _limit the first
\* that is free or matching it returns that slot.
C18_ProbeLimit ==
    \A f \in Files :
       (task[f].pc = "returned" /\ SourceHashable(f)) =>
          /\ task[f].err = "" => task[f].final \in SlotPaths
          /\ (\A n \in 0..CollisionLimit : SlotDiffers(f, n)) =>
                task[f].err = "resolve"
          /\ (/\ \A n \in 0..(CollisionLimit - 1) : SlotDiffers(f, n)
              /\ ~SlotDiffers(f, CollisionLimit))
             => /\ task[f].err = ""
                /\ task[f].final = Slot(f, CollisionLimit)

C18_Witness ==
    \E f \in Files :
       /\ task[f].pc = "returned" /\ task[f].err = ""
       /\ \A n \in 0..(CollisionLimit - 1) : SlotDiffers(f, n)
       /\ SlotFree(f, CollisionLimit)
       /\ task[f].final = Slot(f, CollisionLimit)
       /\ ~task[f].dup

C20_FreeCandidateFastPath ==
    \A f \in Files :
       (task[f].pc = "returned" /\ SlotFree(f, 0)) =>
          /\ task[f].err = ""
          /\ task[f].final = task[f].dest
          /\ ~task[f].dup

C20_Witness ==
    \E f \in Files :
       /\ task[f].pc = "returned" /\ task[f].err = ""
       /\ SlotFree(f, 0) /\ ~SlotFree(f, 1)
       /\ ~SourceHashable(f)
       /\ task[f].final = task[f].dest /\ ~task[f].dup

\* C21: the calls of the detector (CheckAndResolve with ResolveCollision and
\* CalculateSHA256 inside, IsDuplicate) only read: whatever the tree and
\* whatever they return, errors included, every file, sidecar, temp file
\* and directory is what it was before the call.
C21_DetectorOnlyReads == [][fsVars' = fsVars]_vars

C21_Witness ==
    \E f \in Files :
       /\ task[f].pc = "returned" /\ task[f].err = "resolve"
       /\ \A n \in 0..CollisionLimit : SlotDiffers(f, n)
       /\ SourceHashable(f)
       /\ ~Exists(tmp[f])

\* C22: the hash of the source that decides the classification is the hash
\* of the bytes of "<source>_original" when that sidecar exists, and of the
\* source's own bytes when it does not.
C22_SourceSidecarIsHashed ==
    \A f \in Files :
       LET d == IF task[f].pc = "returned" THEN task[f].final ELSE task[f].dest
           sourceBytes == IF Exists(srcOrig[f]) THEN Bytes(srcOrig[f])
                          ELSE Bytes(src[f])
       IN  (/\ task[f].pc \in {"returned", "compared"}
            /\ task[f].err = ""
            /\ Exists(dst[d]) /\ ~Exists(dstOrig[d]))
           => (task[f].dup <=> Bytes(dst[d]) = sourceBytes)

C22_Witness ==
    \E f \in Files :
       /\ task[f].pc = "compared" /\ task[f].err = "" /\ task[f].dup
       /\ Exists(src[f]) /\ Exists(srcOrig[f])
       /\ Bytes(srcOrig[f]) # Bytes(src[f])
       /\ ~Exists(dstOrig[task[f].dest])
       /\ Bytes(dst[task[f].dest]) = Bytes(srcOrig[f])

\* C23: when writeMetadata fails after the transfer, the file is counted as
\* an error, and the transferred file stays at its destination: it is not
\* deleted and, in move mode, not moved back.
\* The second half holds.  The first fails for the write itself: the result
\* of et.WriteMetadata is dropped, writeMetadata returns nil and the file is
\* counted as processed.
C23_MetadataFailureIsReported ==
    \A f \in Files :
       task[f].metaErr # "" =>
          /\ task[f].res = "error"
          /\ task[f].wrote
          /\ dst[task[f].dest].id = run.content[f] /\ dst[task[f].dest].full
          /\ run.Move => ~Exists(src[f])

\* ------------------------------------------------ filename segments
Returned == gen.pc \in {"returned", "verified"}

\* Position of the first separator token sep in str at or after position i
\* (Len(str) + 1 when there is none).
RECURSIVE IndexFrom(_, _, _)
IndexFrom(str, sep, i) ==
    IF i > Len(str) THEN Len(str) + 1
    ELSE IF str[i] = sep THEN i
    ELSE IndexFrom(str, sep, i + 1)

\* The number a sequence of decimal digits denotes.
RECURSIVE ValueOf(_)
ValueOf(d) ==
    IF d = <<>> THEN 0
    ELSE 10 * ValueOf(SubSeq(d, 1, Len(d) - 1))
         + (CHOOSE n \in 0..9 : DigitChars[n + 1] = d[Len(d)])

IsDigits(d) == \A i \in 1..Len(d) : d[i] \in {DigitChars[n] : n \in 1..10}

\* The name without its last two tokens, the dot and the extension.
Stem(filename) == SubSeq(filename, 1, Len(filename) - 2)

\* The subsecond segment of a dated name: from the dot after the seconds to
\* the underscore before the camera.
SubsecSegment(filename) ==
    LET dot == IndexFrom(filename, ".", 1)
        us == IndexFrom(filename, "_", 1)
    IN  SubSeq(filename, dot + 1, us - 1)

\* What follows the first underscore of the stem: camera and increment.
AfterUnderscore(filename) ==
    LET st == Stem(filename)
    IN  SubSeq(st, IndexFrom(st, "_", 1) + 1, Len(st))

\* The camera segment: up to the next underscore.
CameraSegment(filename) ==
    LET rest == AfterUnderscore(filename)
    IN  SubSeq(rest, 1, IndexFrom(rest, "_", 1) - 1)

\* The increment segment: from that underscore on.
IncrementSegment(filename) ==
    LET rest == AfterUnderscore(filename)
    IN  SubSeq(rest, IndexFrom(rest, "_", 1), Len(rest))

Min(a, b) == IF a < b THEN a ELSE b

Max(a, b) == IF a > b THEN a ELSE b

\* C24: for every precision p and every timestamp the call returns a name
\* whose subsecond segment has exactly min(max(p,0),6) digits, the leading
\* digits of the six-digit microsecond value.
C24_SubsecIsClamped ==
    gen.pc # "call" /\ ~gen.metadata.DateTime.nil =>
       /\ gen.pc # "panic"
       /\ LET seg == SubsecSegment(gen.filename)
              n == Min(Max(gen.pg.Precision, 0), 6)
          IN  /\ Len(seg) = n
              /\ IsDigits(seg)
              /\ ValueOf(seg) =
                   (gen.metadata.DateTime.ns \div 1000) \div Pow10(6 - n)

C26_DirectoryByTimestamp ==
    Returned =>
       LET dt == gen.metadata.DateTime
           dir == gen.directory
       IN  /\ dir[1] = gen.baseDir
           /\ dt.nil =>
                /\ dir = <<gen.baseDir, <<"unknown">>>>
                /\ SubSeq(gen.filename, 1, 2) = <<"unknown", "_">>
           /\ ~dt.nil =>
                /\ Len(dir) = 4
                /\ \A i \in 2..4 : dir[i] # <<"unknown">>
                /\ Len(dir[2]) = 4 /\ IsDigits(dir[2]) /\ ValueOf(dir[2]) = dt.Y
                /\ Len(dir[3]) = 2 /\ IsDigits(dir[3]) /\ ValueOf(dir[3]) = dt.M
                /\ Len(dir[4]) = 10
                /\ SubSeq(dir[4], 1, 4) = dir[2] /\ dir[4][5] = "-"
                /\ SubSeq(dir[4], 6, 7) = dir[3] /\ dir[4][8] = "-"
                /\ IsDigits(SubSeq(dir[4], 9, 10))
                /\ ValueOf(SubSeq(dir[4], 9, 10)) = dt.D
                /\ gen.filename[1] # "unknown"

C26_Witness ==
    /\ Returned /\ gen.metadata.DateTime.nil
    /\ gen.directory = <<<<"base">>, <<"unknown">>>>
    /\ gen.filename[1] = "unknown"

C28_VerifyMatchesPlaced ==
    gen.pc = "verified" /\ gen.pg.Precision \in 0..6 =>
       gen.verified = "matched"

\* ------------------------------------------------ the states of a file
TransferPcs == ScPcs \cup {"mv_rename", "mv_remove"}

\* The position of a task in processFile: pending, metadata resolved, path
\* resolved, ready (Perform before the transfer), transferring, writing
\* metadata, terminal.
Rank(pc) ==
    CASE pc \in {"idle", "queued"} -> 0
      [] pc = "resolve" -> 1
      [] pc = "verify" -> 2
      [] pc \in {"mkdir", "recheck", "re_resolve", "re_verify"} -> 3
      [] pc \in TransferPcs -> 4
      [] pc = "meta" -> 5
      [] pc = "done" -> 6

\* C29: a file of a run only moves forward through pending, metadata
\* resolved, path resolved, duplicate or ready, terminal; a transfer starts
\* only from ready and never for a duplicate, metadata is written only by a
\* task whose transfer succeeded, and a finished task is never touched again.
C29_StatesInOrder ==
    /\ [](~run.direct =>
            \A f \in Files :
               /\ task[f].dup => task[f].pc = "done" /\ task[f].res = "duplicate"
                                 /\ ~task[f].wrote
               /\ task[f].pc = "meta" => task[f].wrote
               /\ task[f].metaErr # "" => task[f].wrote)
    /\ [][~run.direct =>
            /\ \A f \in Files :
                  /\ Rank(task'[f].pc) >= Rank(task[f].pc)
                  /\ task[f].pc = "done" => task'[f] = task[f]
                  /\ Rank(task'[f].pc) = 4 /\ Rank(task[f].pc) # 4 =>
                        /\ task[f].pc \in {"recheck", "re_verify"}
                        /\ ~task[f].dup
                  /\ task'[f].pc = "meta" /\ task[f].pc # "meta" =>
                        /\ task[f].pc \in TransferPcs
                        /\ task'[f].wrote
                        /\ Exists(dst'[task[f].dest])
                  /\ task'[f].res # task[f].res => task'[f].pc = "done"
            /\ \A p \in Paths :
                  dst'[p] # dst[p] /\ dst'[p].tagged =>
                     \E f \in Files : /\ task[f].pc = "meta" /\ task[f].wrote
                                      /\ task[f].dest = p
                                      /\ task'[f].pc = "done"
       ]_vars

C29_Witness ==
    /\ ~run.direct
    /\ \E f, g \in Files :
          /\ task[f].pc = "done" /\ task[f].res = "processed" /\ task[f].wrote
          /\ dst[task[f].dest].tagged
          /\ task[g].pc = "done" /\ task[g].res = "duplicate" /\ task[g].dup

\* C30: when another file has come to occupy a task's resolved final path
\* before its transfer, the task does not write to that path: the rename
\* that publishes a file of the pipeline only ever lands on a free path.
\* Two workers refute it: the path is taken after the recheck's Stat and
\* before the rename (the race of C1).
C30_NoWriteOnOccupiedPath ==
    [][~run.direct =>
         \A f \in Files :
            (/\ task[f].pc \in {"sc_rename", "mv_rename"}
             /\ task'[f].pc # task[f].pc
             /\ dst'[task[f].dest] # dst[task[f].dest])
            => ~Exists(dst[task[f].dest])]_vars

\* C31: every path a file of the pipeline is transferred to is the initial
\* candidate or the candidate with exactly one _N suffix, also after the
\* recheck re-resolved it; no path with a stacked suffix is written.
\* Two workers and a taken candidate refute it: both tasks resolve to _1,
\* one publishes there, and the other's recheck re-resolves from _1 with
\* addIncrement(_1, 1), the path _1_1.
C31_SingleSuffix ==
    ~run.direct =>
       /\ \A p \in Paths : Exists(dst[p]) => Len(p.s) <= 1
       /\ \A f \in Files : task[f].wrote => Len(task[f].dest.s) <= 1

\* ------------------------------------------------------ run statistics
Total(st) == st.Processed + st.Duplicates + st.Skipped + st.Errors

Counted == {"processed", "duplicate", "skipped", "error"}

C33_ProcessedMeansTransferred ==
    (~run.direct /\ ~run.DryRun) =>
       /\ \A f \in Files : task[f].res = "processed" => task[f].wrote
       /\ stats.Processed
            <= Cardinality({f \in Files : task[f].wrote})

\* C34: in every interleaving of the submit loop, the monitor goroutine and
\* the cancellation, pool.Submit is never called on a pool that has been
\* stopped.
\* It fails: the monitor stops the pool between the loop's check of the
\* context and its Submit.
C34_NoSubmitAfterStop ==
    [][(coord.pc = "submit" /\ coord'.pc # "submit") => ~stopped]_vars

\* A step of processFiles itself: of the submit loop, a task or the monitor.
Progress ==
    \/ \E f \in Files : TaskStep(f)
    \/ CoordCheck
    \/ CoordSubmit
    \/ CoordStop
    \/ CoordReturn
    \/ MonStop
    \/ MonDone

\* C35: processFiles always returns: as long as it has not returned, some
\* step of the loop, of a task or of the monitor can be taken, with or
\* without a cancellation, and without a cancellation it returns only when
\* every file has a counted outcome.
\* It fails after the Submit on the stopped pool (C34): the panic ends the
\* process and processFiles never returns.
C35_AlwaysReturns ==
    ~run.direct =>
       /\ coord.pc # "done" => ENABLED Progress
       /\ (coord.pc = "done" /\ ~cancelled) =>
             \A f \in Files : task[f].pc = "done" /\ task[f].res \in Counted

\* C36: a run cancelled before processFiles returns gets the 'processing
\* canceled by user' error from it, and run returns that error without the
\* summary and without the cleanup of empty directories.
\* It fails when the cancellation leads to the Submit on the stopped pool
\* (C34): processFiles panics and returns nothing.
C36_CancelledRunReturnsError ==
    (~run.direct /\ cancelled) =>
       /\ coord.pc # "panic"
       /\ coord.pc = "done" =>
             coord.err /\ ~coord.summary /\ ~coord.cleanup

\* C37: collectFiles returns each file at most once, by absolute path, also
\* when the source directories overlap or repeat; it returns only existing
\* files with a supported extension, and without the recursive flag no file
\* of a subdirectory of a source directory.
C37_EachFileOnce ==
    scan.pc = "returned" =>
       /\ \A i, j \in 1..Len(scan.files) :
             i # j => scan.files[i] # scan.files[j]
       /\ \A i \in 1..Len(scan.files) :
             LET file == scan.files[i] IN
             /\ file.ext \in {"jpg", "JPG", "cr2"}
             /\ \E e \in scan.tree :
                   /\ Entries[e].kind = "file"
                   /\ Entries[e].dir = file.dir /\ Entries[e].name = file.name
                   /\ Entries[e].ext = file.ext
             /\ ~scan.recursive =>
                   \E k \in 1..Len(scan.sourceDirs) :
                      LET sourceDir == scan.sourceDirs[k] IN
                      \/ sourceDir \in {"A", "./A"} /\ file.dir = "/A"
                      \/ sourceDir = "A/sub" /\ file.dir = "/A/sub"
                      \/ sourceDir = "B" /\ file.dir = "/B"

C37_Witness ==
    /\ scan.pc = "returned" /\ scan.recursive
    /\ scan.sourceDirs = <<"./A", "A/sub">>
    /\ 3 \in scan.tree /\ 4 \in scan.tree
    /\ Len(scan.files) = 2

\* An invocation run has to refuse.
Invalid ==
    \/ ~cli.exiftool
    \/ ~cli.copyMode /\ ~cli.moveMode
    \/ cli.clean /\ ~cli.moveMode
    \/ \E k \in DOMAIN cli.sources : ~cli.sources[k]

\* C38: an invocation without the metadata tool, without a mode, with
\* --clean but not --move, or with a missing source directory is refused
\* with an error before any file is discovered, submitted or changed.
C38_InvalidInvocationRejected ==
    /\ [](Invalid =>
            /\ ~cli.discovered /\ ~cli.submitted
            /\ cli.pc \in {"tool", "flags", "paths", "returned"}
            /\ cli.pc = "returned" => cli.err # "")
    /\ [](cli.pc = "returned" /\ ~cli.exiftool => cli.err = "exiftool not found")

C38_Witness ==
    /\ cli.pc = "returned" /\ cli.err = "--clean requires --move"
    /\ cli.copyMode /\ cli.clean /\ cli.exiftool
    /\ \A k \in DOMAIN cli.sources : cli.sources[k]
    /\ ~cli.discovered

\* The contents present in the directory.
VContents(d) == {d[n] : n \in VNames} \ {Absent}

\* C39: verify --fix never overwrites or removes a file: a rename lands only
\* on a name where no file is at that moment, whatever the interleaving of
\* the workers, also when two mismatched files expect the same name; a file
\* that is not renamed is not counted as fixed.
\* It fails for two files with one expected name: both workers find the
\* name free, and the second rename replaces the file the first one put
\* there.
C39_FixNeverOverwrites ==
    [][/\ VContents(vfy'.dir) = VContents(vfy.dir)
       /\ \A n \in VNames :
             (vfy.dir[n] # Absent /\ vfy'.dir[n] # vfy.dir[n]) =>
                vfy'.dir[n] = Absent
       /\ vfy'.stats.Fixed # vfy.stats.Fixed => vfy'.dir # vfy.dir
      ]_vars

\* C40: the two ways to a suffixed path agree: addIncrement with N >= 1 on
\* the path generated with increment 0 is the path GeneratePath returns for
\* increment N, for every record, naming, precision and extension.
C40_AddIncrementAgrees ==
    gen.pc = "suffixed" =>
       /\ gen.suffixed = Append(gen.directory, gen.filename)
       /\ gen.suffixed = GeneratePath(gen.pg, gen.metadata, gen.baseDir,
                                      gen.extension, gen.increment)

C40_Witness ==
    /\ gen.pc = "suffixed" /\ gen.increment = 2
    /\ gen.extension = "CR2" /\ ~gen.metadata.DateTime.nil
    /\ LET name == gen.suffixed[Len(gen.suffixed)] IN
       SubSeq(name, Len(name) - 3, Len(name)) = <<"_", "2", ".", "cr2">>

====
